---- MODULE Spec2Model ----
(***************************************************************************)
(* TSServerClient (src/src/tsserver/client.ts): the subprocess protocol    *)
(* client of tsserver-mcp.  Text is modelled as sequences of one-character *)
(* strings, so that framing, JSON parsing and substring tests are computed *)
(* character by character as the code computes them.  setTimeout is taken  *)
(* by its contract: a callback armed with a delay runs once, at some later *)
(* turn of the event loop; the delay and the time it was armed at are kept *)
(* with it.  In SpecClock the clock advances and a callback runs no sooner *)
(* than its delay after it was armed; the other specifications leave the   *)
(* clock at 0 and let an armed callback run at any later turn.             *)
(***************************************************************************)
EXTENDS Integers, Sequences, FiniteSets, TLC

(***************************************************************************)
(* Bounds of the model.                                                    *)
(***************************************************************************)
MaxCalls == 2
MaxSeq == 4
MaxProcs == 3
MaxStarts == 2
MaxFileCalls == 3
MaxStops == 2
MaxNow == 31000
MaxCuts == 3
MaxTools == 2

MaxLogs == 5

MaxFileSize == 1

MaxFiles == 3

MaxTriggers == 3

(***************************************************************************)
(* Program constants.                                                      *)
(***************************************************************************)
InitialSequence == 1
MaxRetries == 3
RequestTimeoutMs == 15000
OpenTimeoutMs == 30000
BackoffBaseMs == 1000
BackoffCapMs == 5000
GraceMs == 3000

(***************************************************************************)
(* String literals of the source.                                          *)
(***************************************************************************)
HeaderPrefix ==
    <<"C", "o", "n", "t", "e", "n", "t", "-", "L", "e", "n", "g", "t", "h", ":", " ">>
JsonResponseHead ==
    <<"{", "\"", "s", "e", "q", "\"", ":", "0", ",", "\"", "t", "y", "p", "e", "\"", ":", "\"", "r", "e", "s", "p", "o", "n", "s", "e", "\"", ",", "\"", "r", "e", "q", "u", "e", "s", "t", "_", "s", "e", "q", "\"", ":">>
JsonSuccessBody ==
    <<",", "\"", "s", "u", "c", "c", "e", "s", "s", "\"", ":", "t", "r", "u", "e", ",", "\"", "b", "o", "d", "y", "\"", ":", "\"">>
JsonFailureMessage ==
    <<",", "\"", "s", "u", "c", "c", "e", "s", "s", "\"", ":", "f", "a", "l", "s", "e", ",", "\"", "m", "e", "s", "s", "a", "g", "e", "\"", ":", "\"">>
JsonEventHead ==
    <<"{", "\"", "s", "e", "q", "\"", ":", "0", ",", "\"", "t", "y", "p", "e", "\"", ":", "\"", "e", "v", "e", "n", "t", "\"", ",", "\"", "e", "v", "e", "n", "t", "\"", ":", "\"">>
JsonEventBody ==
    <<"\"", ",", "\"", "b", "o", "d", "y", "\"", ":", "\"">>
JsonTail ==
    <<"\"", "}">>
DebugFailure ==
    <<"D", "e", "b", "u", "g", " ", "F", "a", "i", "l", "u", "r", "e">>
DebugFailurePrefix ==
    <<"T", "S", "S", "e", "r", "v", "e", "r", " ", "D", "e", "b", "u", "g", " ", "F", "a", "i", "l", "u", "r", "e", ":", " ">>
DebugFailureSuffix ==
    <<".", " ", "T", "h", "i", "s", " ", "m", "a", "y", " ", "b", "e", " ", "d", "u", "e", " ", "t", "o", " ", "f", "i", "l", "e", " ", "s", "t", "a", "t", "e", " ", "i", "s", "s", "u", "e", "s", " ", "o", "r", " ", "c", "o", "n", "c", "u", "r", "r", "e", "n", "t", " ", "o", "p", "e", "r", "a", "t", "i", "o", "n", "s", ".">>
RequestFailedText ==
    <<"R", "e", "q", "u", "e", "s", "t", " ", "f", "a", "i", "l", "e", "d">>
ShuttingDownText ==
    <<"T", "S", "S", "e", "r", "v", "e", "r", " ", "i", "s", " ", "s", "h", "u", "t", "t", "i", "n", "g", " ", "d", "o", "w", "n">>
NotStartedText ==
    <<"T", "S", "S", "e", "r", "v", "e", "r", " ", "n", "o", "t", " ", "s", "t", "a", "r", "t", "e", "d">>
NullStdinText ==
    <<"C", "a", "n", "n", "o", "t", " ", "r", "e", "a", "d", " ", "p", "r", "o", "p", "e", "r", "t", "i", "e", "s", " ", "o", "f", " ", "n", "u", "l", "l", " ", "(", "r", "e", "a", "d", "i", "n", "g", " ", "'", "s", "t", "d", "i", "n", "'", ")">>
FileNotFoundText ==
    <<"F", "i", "l", "e", " ", "n", "o", "t", " ", "f", "o", "u", "n", "d">>
TimedOutHead ==
    <<"R", "e", "q", "u", "e", "s", "t", " ">>
TimedOutMid ==
    <<" ", "t", "i", "m", "e", "d", " ", "o", "u", "t", " ", "a", "f", "t", "e", "r", " ">>
TimedOutTail ==
    <<"m", "s">>
CmdDefinition ==
    <<"d", "e", "f", "i", "n", "i", "t", "i", "o", "n">>
CmdOpen ==
    <<"o", "p", "e", "n">>
CmdConfigure ==
    <<"c", "o", "n", "f", "i", "g", "u", "r", "e">>
BodyX ==
    <<"x">>
EventName ==
    <<"s", "y", "n", "t", "a", "x", "D", "i", "a", "g">>
BodyY ==
    <<"y">>
OtherEventName ==
    <<"s", "e", "m", "a", "n", "t", "i", "c", "D", "i", "a", "g">>
BadJson ==
    <<"{", "\"", "s", "e", "q", "\"", ":", "0", ",", "\"", "t", "y", "p", "e", "\"", ":", "\"", "r", "e", "s", "p", "o", "n">>
CmdQuickinfo ==
    <<"q", "u", "i", "c", "k", "i", "n", "f", "o">>
CmdReferences ==
    <<"r", "e", "f", "e", "r", "e", "n", "c", "e", "s">>
CmdRename ==
    <<"r", "e", "n", "a", "m", "e">>
CmdSyntacticDiagnostics ==
    <<"s", "y", "n", "t", "a", "c", "t", "i", "c", "D", "i", "a", "g", "n", "o", "s", "t", "i", "c", "s", "S", "y", "n", "c">>
CmdSemanticDiagnostics ==
    <<"s", "e", "m", "a", "n", "t", "i", "c", "D", "i", "a", "g", "n", "o", "s", "t", "i", "c", "s", "S", "y", "n", "c">>
CmdOrganizeImports ==
    <<"o", "r", "g", "a", "n", "i", "z", "e", "I", "m", "p", "o", "r", "t", "s">>
ErrorPrefix ==
    <<"E", "r", "r", "o", "r", ":", " ">>
ArgumentsRequiredText ==
    <<"A", "r", "g", "u", "m", "e", "n", "t", "s", " ", "a", "r", "e", " ", "r", "e", "q", "u", "i", "r", "e", "d">>
UnknownToolPrefix ==
    <<"U", "n", "k", "n", "o", "w", "n", " ", "t", "o", "o", "l", ":", " ">>
UnknownToolName ==
    <<"t", "s", "_", "f", "o", "r", "m", "a", "t">>

(***************************************************************************)
(* Text helpers: String.prototype.includes, parseInt, number formatting.   *)
(***************************************************************************)
Digits == <<"0", "1", "2", "3", "4", "5", "6", "7", "8", "9">>

DigitChars == {Digits[d] : d \in 1..10}

DigitValues == [ch \in DigitChars |-> (CHOOSE d \in 1..10 : Digits[d] = ch) - 1]

IsDigit(ch) == ch \in DigitChars

DigitVal(ch) == DigitValues[ch]

StartsWithAt(s, i, lit) ==
    /\ i + Len(lit) - 1 <= Len(s)
    /\ SubSeq(s, i, i + Len(lit) - 1) = lit

Includes(s, lit) == \E i \in 1..(Len(s) + 1) : StartsWithAt(s, i, lit)

RECURSIVE ParseInt(_)
ParseInt(ds) ==
    IF ds = <<>> THEN 0
    ELSE 10 * ParseInt(SubSeq(ds, 1, Len(ds) - 1)) + DigitVal(ds[Len(ds)])

RECURSIVE ToDigits(_)
ToDigits(n) ==
    IF n < 10 THEN <<Digits[n + 1]>>
    ELSE ToDigits(n \div 10) \o <<Digits[(n % 10) + 1]>>

\* index of the first character at or after i that is not a digit
RECURSIVE DigitRunEnd(_, _)
DigitRunEnd(s, i) ==
    IF i <= Len(s) /\ IsDigit(s[i]) THEN DigitRunEnd(s, i + 1) ELSE i

\* index of the first character at or after i that closes a JSON string
StringStops == {"\"", "\\"}

StringEnd(s, i) ==
    LET ends == {j \in i..Len(s) : s[j] \in StringStops}
    IN  IF ends # {} THEN CHOOSE j \in ends : \A k \in ends : j <= k
        ELSE IF i <= Len(s) THEN Len(s) + 1 ELSE i

(***************************************************************************)
(* handleData, line 150: /^Content-Length: (\d+)\r?\n\r?\n/ on the buffer. *)
(***************************************************************************)
SkipCR(s, i) == IF i <= Len(s) /\ s[i] = "\r" THEN i + 1 ELSE i

HeaderMatch(buf) ==
    LET p == Len(HeaderPrefix) + 1
        e == DigitRunEnd(buf, p)
        n1 == SkipCR(buf, e)
        n2 == SkipCR(buf, n1 + 1)
    IN  IF /\ StartsWithAt(buf, 1, HeaderPrefix)
           /\ e > p
           /\ n1 <= Len(buf) /\ buf[n1] = "\n"
           /\ n2 <= Len(buf) /\ buf[n2] = "\n"
        THEN [matched |-> TRUE,
              contentLength |-> ParseInt(SubSeq(buf, p, e - 1)),
              headerLength |-> n2]
        ELSE [matched |-> FALSE, contentLength |-> 0, headerLength |-> 0]

(***************************************************************************)
(* JSON.parse (line 185) on the message shapes of protocol.ts; any other   *)
(* text makes JSON.parse throw, rendered as type "invalid".                *)
(***************************************************************************)
InvalidJson ==
    [type |-> "invalid", request_seq |-> 0, success |-> FALSE,
     message |-> <<>>, body |-> <<>>, event |-> <<>>]

ParseResponse(content) ==
    LET p == Len(JsonResponseHead) + 1
        e == DigitRunEnd(content, p)
        seqno == ParseInt(SubSeq(content, p, e - 1))
        isOk == StartsWithAt(content, e, JsonSuccessBody)
        isFail == StartsWithAt(content, e, JsonFailureMessage)
        s == IF isOk THEN e + Len(JsonSuccessBody) ELSE e + Len(JsonFailureMessage)
        t == StringEnd(content, s)
        text == SubSeq(content, s, t - 1)
    IN  IF /\ e > p
           /\ isOk \/ isFail
           /\ StartsWithAt(content, t, JsonTail)
           /\ t + Len(JsonTail) - 1 = Len(content)
        THEN [type |-> "response", request_seq |-> seqno, success |-> isOk,
              message |-> IF isOk THEN <<>> ELSE text,
              body |-> IF isOk THEN text ELSE <<>>, event |-> <<>>]
        ELSE InvalidJson

ParseEvent(content) ==
    LET s == Len(JsonEventHead) + 1
        t == StringEnd(content, s)
        b == t + Len(JsonEventBody)
        u == StringEnd(content, b)
    IN  IF /\ StartsWithAt(content, t, JsonEventBody)
           /\ StartsWithAt(content, u, JsonTail)
           /\ u + Len(JsonTail) - 1 = Len(content)
        THEN [type |-> "event", request_seq |-> 0, success |-> FALSE,
              message |-> <<>>, body |-> SubSeq(content, b, u - 1),
              event |-> SubSeq(content, s, t - 1)]
        ELSE InvalidJson

JsonParse(content) ==
    IF StartsWithAt(content, 1, JsonResponseHead) THEN ParseResponse(content)
    ELSE IF StartsWithAt(content, 1, JsonEventHead) THEN ParseEvent(content)
    ELSE InvalidJson

(***************************************************************************)
(* The frames the external process writes (spec section 6, tests).         *)
(***************************************************************************)
SuccessJson(rs, body) ==
    JsonResponseHead \o ToDigits(rs) \o JsonSuccessBody \o body \o JsonTail

FailureJson(rs, msg) ==
    JsonResponseHead \o ToDigits(rs) \o JsonFailureMessage \o msg \o JsonTail

EventJson(name, body) ==
    JsonEventHead \o name \o JsonEventBody \o body \o JsonTail

Frame(json) == HeaderPrefix \o ToDigits(Len(json)) \o <<"\n", "\n">> \o json

FrameCRLF(json) ==
    HeaderPrefix \o ToDigits(Len(json)) \o <<"\r", "\n", "\r", "\n">> \o json
(***************************************************************************)
(* The logger (src/logger/index.ts) and the configuration it reads         *)
(* (src/config/manager.ts).  The log directory is a function from the      *)
(* names of the files that exist to their lines; a file's size is counted  *)
(* in entries, one entry standing for one megabyte.                        *)
(***************************************************************************)
levels == <<"error", "warn", "info", "debug">>

LogLevels == {levels[i] : i \in DOMAIN levels}

\* Array.prototype.indexOf, counted from 0; -1 when the value is absent.
IndexOf(list, value) ==
    IF \E i \in DOMAIN list : list[i] = value
    THEN (CHOOSE i \in DOMAIN list :
              /\ list[i] = value
              /\ \A j \in 1..(i - 1) : list[j] # value) - 1
    ELSE -1

defaultConfig ==
    [enabled |-> FALSE, level |-> "info", logToFile |-> TRUE, maxFileSize |-> 10,
     maxFiles |-> 5]

logFile == "tsserver-mcp.log"

RotatedNames ==
    <<"tsserver-mcp.log.0", "tsserver-mcp.log.1", "tsserver-mcp.log.2",
      "tsserver-mcp.log.3", "tsserver-mcp.log.4">>

\* `tsserver-mcp.log.${i}`
RotatedLog(i) == RotatedNames[i + 1]

EmptyDir == [n \in {} |-> <<>>]

NoLogger ==
    [config |-> defaultConfig, loaded |-> FALSE, calls |-> <<>>, console |-> <<>>,
     dir |-> EmptyDir]

existsSync(dir, name) == name \in DOMAIN dir

WriteFile(dir, name, lines) ==
    [n \in DOMAIN dir \cup {name} |-> IF n = name THEN lines ELSE dir[n]]

Unlink(dir, name) == [n \in DOMAIN dir \ {name} |-> dir[n]]

ShouldLogInverted(config, level) ==
    /\ config.enabled
    /\ IndexOf(levels, level) >= IndexOf(levels, config.level)

ShouldLog(config, level) ==
    /\ config.enabled
    /\ IndexOf(levels, level) <= IndexOf(levels, config.level)

RECURSIVE RotateLoop(_, _)
RotateLoop(dir, i) ==
    IF i < 0 THEN dir
    ELSE LET currentLog == IF i = 0 THEN logFile ELSE RotatedLog(i)
             nextLog == RotatedLog(i + 1)
             copied == WriteFile(dir, nextLog, dir[currentLog])
         IN  IF existsSync(dir, currentLog)
             THEN RotateLoop(IF i = 0 THEN WriteFile(copied, logFile, <<>>)
                                      ELSE Unlink(copied, currentLog), i - 1)
             ELSE RotateLoop(dir, i - 1)

RotateLogs(dir, maxFiles) ==
    LET oldestLog == RotatedLog(maxFiles - 1)
    IN  RotateLoop(IF existsSync(dir, oldestLog) THEN Unlink(dir, oldestLog) ELSE dir,
                   maxFiles - 2)

RotateLogsIfNeeded(dir, config) ==
    IF ~existsSync(dir, logFile) THEN dir
    ELSE IF Len(dir[logFile]) > config.maxFileSize
         THEN RotateLogs(dir, config.maxFiles)
         ELSE dir

WriteToFile(dir, config, entry) ==
    IF ~config.logToFile THEN dir
    ELSE LET rotated == RotateLogsIfNeeded(dir, config)
         IN  WriteFile(rotated, logFile,
                       IF existsSync(rotated, logFile)
                       THEN Append(rotated[logFile], entry) ELSE <<entry>>)

DebugConfigs ==
    [enabled : BOOLEAN, level : LogLevels, logToFile : BOOLEAN,
     maxFileSize : {MaxFileSize}, maxFiles : 1..MaxFiles]


(***************************************************************************)
(* State of one TSServerClient and of the processes it spawned.            *)
(***************************************************************************)
VARIABLES
    fastTest,          \* skipAvailabilityCheck (constructor argument)
    process,           \* this.process: 0 is null, otherwise a process id
    procs,             \* the spawned ChildProcess objects
    sequence,          \* this.sequence
    pendingRequests,   \* this.pendingRequests: seq -> promise of an attempt
    buffer,            \* this.buffer
    openFiles,         \* this.openFiles
    timers,            \* armed per-request setTimeout callbacks, with their delay
    reqs,              \* the request() calls and their retry loops
    files,             \* the openFile()/closeFile() calls
    stops,             \* the stop() calls
    starts,            \* the start() calls, one per spawned process
    server,            \* what each external process was told over stdin
    pendingLog,        \* per sequence number: registrations and removals
    emitted,           \* this.emit calls ('event' and 'exit'), in order
    wire,              \* stdout text the process has produced, not yet delivered
    fed,               \* stdout text delivered so far, all chunks together
    got,               \* messages handleData has passed to handleMessage so far
    now,               \* the event loop's clock, in ms since the module was loaded
    cuts,              \* lengths of the chunks the stdout stream was cut into
    logger,            \* the Logger singleton: its configuration, console and log directory
    main,              \* main(): isShuttingDown and the exit code of the server process
    tools              \* the tool operations called on the client

vars ==
    <<fastTest, process, procs, sequence, pendingRequests, buffer, openFiles,
      timers, reqs, files, stops, starts, server, pendingLog, emitted, wire, fed,
      got, now, cuts, tools, logger, main>>

Paths == {"/a.ts"}
Commands == {CmdDefinition, CmdOpen}
Pids == 1..MaxProcs
UserCalls == 1..MaxCalls
ConfigCall(p) == MaxCalls + p
CallIds == 1..(MaxCalls + MaxProcs)
FileCalls == 1..MaxFileCalls
StopCalls == 1..MaxStops
ToolCalls == 1..MaxTools

Min(a, b) == IF a < b THEN a ELSE b

RECURSIVE Pow2(_)
Pow2(n) == IF n = 0 THEN 1 ELSE 2 * Pow2(n - 1)

NoRequest ==
    [pc |-> "idle", command |-> <<>>, attempt |-> 0, seq |-> 0, delay |-> 0,
     value |-> <<>>, error |-> <<>>, by |-> "none", reply |-> 0, frames |-> 0,
     delays |-> <<>>, sentAt |-> 0, failedAt |-> 0, waits |-> <<>>, at |-> 0]

NoFileCall ==
    [pc |-> "idle", op |-> "none", path |-> "", had |-> FALSE, wrote |-> FALSE,
     proc |-> 0, seen |-> {}]

NoStop ==
    [pc |-> "idle", delay |-> 0, armed |-> 0, proc |-> 0, live |-> {},
     cancelled |-> {}]

\* main() before any shutdown trigger; exitCode -1: process.exit was not called
NoMain == [isShuttingDown |-> FALSE, exitCode |-> -1, triggers |-> 0, signal |-> "none"]

\* what the CallTool handler gave back: nothing yet, a result or an exception
NoResponse == [kind |-> "none", isError |-> FALSE, text |-> <<>>]

NoTool ==
    [pc |-> "idle", kind |-> "none", path |-> "", calls |-> <<>>, sent |-> <<>>,
     file |-> 0, slots |-> <<>>, ret |-> [kind |-> "none", value |-> <<>>],
     response |-> NoResponse]

NoStart == [pc |-> "none", delay |-> 0]

NoProc == [state |-> "none", killed |-> FALSE]


NoServer ==
    [open |-> {}, dupOpen |-> FALSE, strayClose |-> FALSE,
     opens |-> [q \in Paths |-> 0], closes |-> [q \in Paths |-> 0],
     exitCmd |-> FALSE]

Fresh(fast) ==
    /\ fastTest = fast
    /\ process = 0
    /\ procs = [p \in Pids |-> NoProc]
    /\ sequence = InitialSequence
    /\ pendingRequests = <<>>
    /\ buffer = <<>>
    /\ openFiles = {}
    /\ timers = {}
    /\ reqs = [c \in CallIds |-> NoRequest]
    /\ files = [f \in FileCalls |-> NoFileCall]
    /\ stops = [k \in StopCalls |-> NoStop]
    /\ starts = [p \in Pids |-> NoStart]
    /\ server = [p \in Pids |-> NoServer]
    /\ pendingLog = <<>>
    /\ emitted = <<>>
    /\ wire = <<>>
    /\ fed = <<>>
    /\ got = <<>>
    /\ now = 0
    /\ cuts = <<>>
    /\ tools = [t \in ToolCalls |-> NoTool]
    /\ logger = NoLogger
    /\ main = NoMain

Init == Fresh(TRUE)

(***************************************************************************)
(* Map helpers: pendingRequests and pendingLog are functions whose domain  *)
(* is the set of keys present.                                             *)
(***************************************************************************)
MapSet(m, k, v) == [x \in (DOMAIN m) \cup {k} |-> IF x = k THEN v ELSE m[x]]

MapDelete(m, k) == [x \in (DOMAIN m) \ {k} |-> m[x]]

LogSet(log, s) ==
    MapSet(log, s, IF s \in DOMAIN log
                   THEN [log[s] EXCEPT !.sets = @ + 1]
                   ELSE [sets |-> 1, removals |-> <<>>, settles |-> <<>>,
                         late |-> FALSE])

LogRemove(log, s, by) ==
    IF s \in DOMAIN log
    THEN [log EXCEPT ![s].removals = Append(@, by)]
    ELSE log

\* lines 230-235: a response that matches no pending entry is only logged;
\* the history notes it when the entry it names is one stop() has removed
LogLate(log, s) ==
    IF s \in DOMAIN log /\ log[s].removals = <<"stop">>
    THEN [log EXCEPT ![s].late = TRUE]
    ELSE log

\* the promise tool operation t awaits has settled
ToolReady(t) ==
    \/ /\ tools[t].pc \in {"opening", "closing"}
       /\ files[tools[t].file].pc \in {"done", "failed"}
    \/ /\ tools[t].pc = "requesting"
       /\ reqs[tools[t].sent[Len(tools[t].sent)]].pc \in {"resolved", "rejected"}

\* continuations of awaited promises that the microtask queue still holds
MicrotaskPending ==
    \/ \E f \in FileCalls : files[f].pc = "notified"
    \/ \E k \in StopCalls : stops[k].pc = "resuming"
    \/ \E t \in ToolCalls : ToolReady(t)

(***************************************************************************)
(* The fields that one synchronous run of client code may change, gathered *)
(* in a record so that loops (several messages in a chunk, several pending *)
(* entries in stop) can be folded over it.                                 *)
(***************************************************************************)
Client ==
    [sequence |-> sequence, pendingRequests |-> pendingRequests,
     pendingLog |-> pendingLog, reqs |-> reqs, timers |-> timers,
     emitted |-> emitted]

Commit(st) ==
    /\ sequence' = st.sequence
    /\ pendingRequests' = st.pendingRequests
    /\ pendingLog' = st.pendingLog
    /\ reqs' = st.reqs
    /\ timers' = st.timers
    /\ emitted' = st.emitted

LogSettle(log, s, by) ==
    IF s \in DOMAIN log
    THEN [log EXCEPT ![s].settles = Append(@, by)]
    ELSE log

(***************************************************************************)
(* requestWithRetry, lines 335-365: the catch block of one attempt.        *)
(***************************************************************************)
\* line 353 growing by the base delay each time instead of doubling
BackoffDelayLinear(attempt) ==
    Min(BackoffBaseMs * (attempt + 1), BackoffCapMs)

BackoffDelay(attempt) == Min(BackoffBaseMs * Pow2(attempt), BackoffCapMs)

\* line 340 without the isDebugFailure test: any failure is retried
CatchBlockRetryAny(rq, error, by, rs) ==
    LET isLastAttempt == rq.attempt = MaxRetries
    IN  IF ~isLastAttempt
        THEN [rq EXCEPT !.pc = "backoff", !.delay = BackoffDelay(rq.attempt),
                        !.error = error, !.by = by, !.reply = rs,
                        !.failedAt = now]
        ELSE [rq EXCEPT !.pc = "rejected", !.value = error,
                        !.error = error, !.by = by, !.reply = rs, !.at = now]

CatchBlock(rq, error, by, rs) ==
    LET isDebugFailure == Includes(error, DebugFailure)
        isLastAttempt == rq.attempt = MaxRetries
    IN  IF isDebugFailure /\ ~isLastAttempt
        THEN [rq EXCEPT !.pc = "backoff", !.delay = BackoffDelay(rq.attempt),
                        !.error = error, !.by = by, !.reply = rs,
                        !.failedAt = now]
        ELSE [rq EXCEPT !.pc = "rejected", !.value = error,
                        !.error = error, !.by = by, !.reply = rs, !.at = now]

\* a promise settles once: later calls of its resolve/reject do nothing
PromiseLive(st, pr) ==
    /\ st.reqs[pr.call].pc = "waiting"
    /\ st.reqs[pr.call].attempt = pr.attempt

ResolvePromise(st, pr, body, by, rs) ==
    [st EXCEPT !.pendingLog = LogSettle(@, pr.seq, by),
               !.reqs[pr.call] =
                   IF PromiseLive(st, pr)
                   THEN [@ EXCEPT !.pc = "resolved", !.value = body,
                                  !.by = by, !.reply = rs, !.at = now]
                   ELSE @]

RejectPromise(st, pr, error, by, rs) ==
    [st EXCEPT !.pendingLog = LogSettle(@, pr.seq, by),
               !.reqs[pr.call] =
                   IF PromiseLive(st, pr)
                   THEN CatchBlock(@, error, by, rs)
                   ELSE @]

(***************************************************************************)
(* handleMessage, lines 193-249.                                           *)
(***************************************************************************)
ResponseError(message) ==
    IF message # <<>> /\ Includes(message, DebugFailure)
    THEN DebugFailurePrefix \o message \o DebugFailureSuffix
    ELSE IF message # <<>> THEN message ELSE RequestFailedText

\* lines 208-210 taking the oldest pending entry instead of the one that
\* message.request_seq names
HandleMessageOldest(st, message) ==
    IF message.type = "response"
    THEN IF message.request_seq \in DOMAIN st.pendingRequests
         THEN LET rs == CHOOSE s \in DOMAIN st.pendingRequests :
                            \A r \in DOMAIN st.pendingRequests : s <= r
                  pending == st.pendingRequests[rs]
                  st1 == [st EXCEPT !.pendingRequests = MapDelete(@, rs),
                                    !.pendingLog = LogRemove(@, rs, "response")]
              IN  IF message.success
                  THEN ResolvePromise(st1, pending, message.body, "response",
                                      message.request_seq)
                  ELSE RejectPromise(st1, pending, ResponseError(message.message),
                                     "response", message.request_seq)
         ELSE [st EXCEPT !.pendingLog = LogLate(@, message.request_seq)]
    ELSE IF message.type = "event"
         THEN [st EXCEPT !.emitted =
                   Append(@, [channel |-> "event", event |-> message.event,
                              body |-> message.body])]
         ELSE st

\* line 239 publishing an event ahead of the ones published before it
HandleMessageNewestFirst(st, message) ==
    IF message.type = "response"
    THEN IF message.request_seq \in DOMAIN st.pendingRequests
         THEN LET rs == message.request_seq
                  pending == st.pendingRequests[rs]
                  st1 == [st EXCEPT !.pendingRequests = MapDelete(@, rs),
                                    !.pendingLog = LogRemove(@, rs, "response")]
              IN  IF message.success
                  THEN ResolvePromise(st1, pending, message.body, "response", rs)
                  ELSE RejectPromise(st1, pending, ResponseError(message.message),
                                     "response", rs)
         ELSE [st EXCEPT !.pendingLog = LogLate(@, message.request_seq)]
    ELSE IF message.type = "event"
         THEN [st EXCEPT !.emitted =
                   <<[channel |-> "event", event |-> message.event,
                      body |-> message.body]>> \o @]
         ELSE st

\* lines 208-210 falling back to the oldest pending entry when
\* message.request_seq names none
HandleMessageFallback(st, message) ==
    IF message.type = "response"
    THEN IF DOMAIN st.pendingRequests # {}
         THEN LET rs == IF message.request_seq \in DOMAIN st.pendingRequests
                        THEN message.request_seq
                        ELSE CHOOSE s \in DOMAIN st.pendingRequests :
                                 \A r \in DOMAIN st.pendingRequests : s <= r
                  pending == st.pendingRequests[rs]
                  st1 == [st EXCEPT !.pendingRequests = MapDelete(@, rs),
                                    !.pendingLog = LogRemove(@, rs, "response")]
              IN  IF message.success
                  THEN ResolvePromise(st1, pending, message.body, "response",
                                      message.request_seq)
                  ELSE RejectPromise(st1, pending, ResponseError(message.message),
                                     "response", message.request_seq)
         ELSE [st EXCEPT !.pendingLog = LogLate(@, message.request_seq)]
    ELSE IF message.type = "event"
         THEN [st EXCEPT !.emitted =
                   Append(@, [channel |-> "event", event |-> message.event,
                              body |-> message.body])]
         ELSE st

HandleMessage(st, message) ==
    IF message.type = "response"
    THEN IF message.request_seq \in DOMAIN st.pendingRequests
         THEN LET rs == message.request_seq
                  pending == st.pendingRequests[rs]
                  st1 == [st EXCEPT !.pendingRequests = MapDelete(@, rs),
                                    !.pendingLog = LogRemove(@, rs, "response")]
              IN  IF message.success
                  THEN ResolvePromise(st1, pending, message.body, "response", rs)
                  ELSE RejectPromise(st1, pending, ResponseError(message.message),
                                     "response", rs)
         ELSE [st EXCEPT !.pendingLog = LogLate(@, message.request_seq)]
    ELSE IF message.type = "event"
         THEN [st EXCEPT !.emitted =
                   Append(@, [channel |-> "event", event |-> message.event,
                              body |-> message.body])]
         ELSE st

(***************************************************************************)
(* handleData, lines 140-191: the extraction loop on the buffer, and the   *)
(* delivery of each extracted content to JSON.parse and handleMessage.     *)
(***************************************************************************)
\* line 166 with `<=` for `<`: a message is extracted only once a character
\* of the next one has arrived
RECURSIVE FrameLoopOffByOne(_, _)
FrameLoopOffByOne(buf, contents) ==
    LET headerMatch == HeaderMatch(buf)
        contentLength == headerMatch.contentLength
        headerLength == headerMatch.headerLength
    IN  IF ~headerMatch.matched
        THEN [buffer |-> buf, contents |-> contents]
        ELSE IF Len(buf) <= headerLength + contentLength
        THEN [buffer |-> buf, contents |-> contents]
        ELSE FrameLoopOffByOne(
                 SubSeq(buf, headerLength + contentLength + 1, Len(buf)),
                 Append(contents,
                        SubSeq(buf, headerLength + 1,
                               headerLength + contentLength)))

\* lines 151-154 emptying the buffer when no header is found at its front
RECURSIVE FrameLoopDropUnmatched(_, _)
FrameLoopDropUnmatched(buf, contents) ==
    LET headerMatch == HeaderMatch(buf)
        contentLength == headerMatch.contentLength
        headerLength == headerMatch.headerLength
    IN  IF ~headerMatch.matched
        THEN [buffer |-> <<>>, contents |-> contents]
        ELSE IF Len(buf) < headerLength + contentLength
        THEN [buffer |-> buf, contents |-> contents]
        ELSE FrameLoopDropUnmatched(
                 SubSeq(buf, headerLength + contentLength + 1, Len(buf)),
                 Append(contents,
                        SubSeq(buf, headerLength + 1,
                               headerLength + contentLength)))

RECURSIVE FrameLoop(_, _)
FrameLoop(buf, contents) ==
    LET headerMatch == HeaderMatch(buf)
        contentLength == headerMatch.contentLength
        headerLength == headerMatch.headerLength
    IN  IF ~headerMatch.matched
        THEN [buffer |-> buf, contents |-> contents]
        ELSE IF Len(buf) < headerLength + contentLength
        THEN [buffer |-> buf, contents |-> contents]
        ELSE FrameLoop(SubSeq(buf, headerLength + contentLength + 1, Len(buf)),
                       Append(contents,
                              SubSeq(buf, headerLength + 1,
                                     headerLength + contentLength)))

\* lines 184-189 with the catch leaving the loop: nothing after an
\* unparsable content is delivered
RECURSIVE DeliverStopAtInvalid(_, _)
DeliverStopAtInvalid(st, contents) ==
    IF contents = <<>> THEN st
    ELSE LET message == JsonParse(Head(contents))
         IN  IF message.type = "invalid" THEN st
             ELSE DeliverStopAtInvalid(HandleMessage(st, message), Tail(contents))

RECURSIVE Deliver(_, _)
Deliver(st, contents) ==
    IF contents = <<>> THEN st
    ELSE LET message == JsonParse(Head(contents))
         IN  Deliver(IF message.type = "invalid" THEN st
                     ELSE HandleMessage(st, message),
                     Tail(contents))

\* line 147 with `=` for `+=`: what was buffered before this chunk is lost
HandleDataNoCarry(buf, data) == FrameLoop(data, <<>>)

HandleData(buf, data) == FrameLoop(buf \o data, <<>>)

(***************************************************************************)
(* requestWithRetry, lines 292-334: one attempt.                           *)
(***************************************************************************)
\* line 325 without the special case of "open"
TimeoutOfAnyCommand(command) == RequestTimeoutMs

TimeoutOf(command) ==
    IF command = CmdOpen THEN OpenTimeoutMs ELSE RequestTimeoutMs

TimeoutError(command, timeout) ==
    TimedOutHead \o command \o TimedOutMid \o ToDigits(timeout) \o TimedOutTail

\* line 292 outside the loop: a retry is resent under the number of the first attempt
SendAttemptSameSeq(st, c) ==
    LET rq == st.reqs[c]
        seq == IF rq.attempt > 0 THEN rq.seq ELSE st.sequence
        pr == [call |-> c, attempt |-> rq.attempt, seq |-> seq]
        timeout == TimeoutOf(rq.command)
        st1 == [st EXCEPT !.sequence = IF rq.attempt > 0 THEN @ ELSE seq + 1,
                          !.pendingRequests = MapSet(@, seq, pr),
                          !.pendingLog = LogSet(@, seq),
                          !.reqs[c] = [rq EXCEPT !.pc = "waiting", !.seq = seq]]
    IN  IF process = 0
        THEN \* this.process!.stdin throws inside the promise executor
             RejectPromise(st1, pr, NullStdinText, "throw", 0)
        ELSE [st1 EXCEPT !.reqs[c].frames = @ + 1,
                         !.reqs[c].sentAt = now,
                         !.timers = @ \cup {[seq |-> seq, call |-> c,
                                             attempt |-> rq.attempt,
                                             delay |-> timeout, armed |-> now]}]

\* line 292 with the counter read one too low: the first request is keyed 0
SendAttemptFromZero(st, c) ==
    LET rq == st.reqs[c]
        seq == st.sequence - 1
        pr == [call |-> c, attempt |-> rq.attempt, seq |-> seq]
        timeout == TimeoutOf(rq.command)
        st1 == [st EXCEPT !.sequence = st.sequence + 1,
                          !.pendingRequests = MapSet(@, seq, pr),
                          !.pendingLog = LogSet(@, seq),
                          !.reqs[c] = [rq EXCEPT !.pc = "waiting", !.seq = seq]]
    IN  IF process = 0
        THEN \* this.process!.stdin throws inside the promise executor
             RejectPromise(st1, pr, NullStdinText, "throw", 0)
        ELSE [st1 EXCEPT !.reqs[c].frames = @ + 1,
                         !.reqs[c].sentAt = now,
                         !.timers = @ \cup {[seq |-> seq, call |-> c,
                                             attempt |-> rq.attempt,
                                             delay |-> timeout, armed |-> now]}]

SendAttempt(st, c) ==
    LET rq == st.reqs[c]
        seq == st.sequence
        pr == [call |-> c, attempt |-> rq.attempt, seq |-> seq]
        timeout == TimeoutOf(rq.command)
        st1 == [st EXCEPT !.sequence = seq + 1,
                          !.pendingRequests = MapSet(@, seq, pr),
                          !.pendingLog = LogSet(@, seq),
                          !.reqs[c] = [rq EXCEPT !.pc = "waiting", !.seq = seq]]
    IN  IF process = 0
        THEN \* this.process!.stdin throws inside the promise executor
             RejectPromise(st1, pr, NullStdinText, "throw", 0)
        ELSE [st1 EXCEPT !.reqs[c].frames = @ + 1,
                         !.reqs[c].sentAt = now,
                         !.timers = @ \cup {[seq |-> seq, call |-> c,
                                             attempt |-> rq.attempt,
                                             delay |-> timeout, armed |-> now]}]

\* request(), lines 251-253 and 287-290
RequestCall(st, c, command) ==
    LET rq == [st.reqs[c] EXCEPT !.command = command]
    IN  IF process = 0
        THEN [st EXCEPT !.reqs[c] = [rq EXCEPT !.pc = "rejected",
                                               !.value = NotStartedText,
                                               !.error = NotStartedText,
                                               !.by = "guard", !.at = now]]
        ELSE SendAttempt([st EXCEPT !.reqs[c] = rq], c)

RequestStep(c, command) ==
    /\ reqs[c].pc = "idle"
    /\ \A b \in 1..(c - 1) : reqs[b].pc # "idle"
    /\ sequence <= MaxSeq
    /\ Commit(RequestCall(Client, c, command))
    /\ UNCHANGED <<main, logger, now, cuts, fastTest, process, procs, buffer, openFiles, files, stops,
                   starts, server, wire, fed, got>>

Request(c, command) == RequestStep(c, command) /\ UNCHANGED tools

\* line 360: the backoff timer fires and the loop sends the next attempt
BackoffFire(c) ==
    /\ reqs[c].pc = "backoff"
    /\ ~MicrotaskPending
    /\ sequence <= MaxSeq
    /\ Commit(SendAttempt(
           [Client EXCEPT !.reqs[c] =
               [@ EXCEPT !.attempt = @ + 1, !.delays = Append(@, reqs[c].delay),
                         !.waits = Append(@, now - reqs[c].failedAt)]],
           c))
    /\ UNCHANGED <<main, logger, tools, now, cuts, fastTest, process, procs, buffer, openFiles, files, stops,
                   starts, server, wire, fed, got>>

\* lines 326-333 without the reject: the callback only drops the entry
TimerFireSilent(t) ==
    /\ t \in timers
    /\ ~MicrotaskPending
    /\ Commit([Client EXCEPT !.timers = @ \ {t},
                             !.pendingRequests = MapDelete(@, t.seq)])
    /\ UNCHANGED <<main, logger, tools, now, cuts, fastTest, process, procs, buffer, openFiles, files, stops,
                   starts, server, wire, fed, got>>

\* lines 326-333 looking up what the call is waiting for now instead of the
\* seq the callback was created for
TimerFireByCall(t) ==
    /\ t \in timers
    /\ ~MicrotaskPending
    /\ LET st0 == [Client EXCEPT !.timers = @ \ {t}]
           mine == {s \in DOMAIN pendingRequests : pendingRequests[s].call = t.call}
       IN  IF mine # {}
           THEN LET s == CHOOSE x \in mine : TRUE
                IN  Commit(RejectPromise(
                        [st0 EXCEPT !.pendingRequests = MapDelete(@, s),
                                    !.pendingLog = LogRemove(@, s, "timer")],
                        pendingRequests[s],
                        TimeoutError(reqs[t.call].command, t.delay), "timer", 0))
           ELSE Commit(st0)
    /\ UNCHANGED <<main, logger, tools, now, cuts, fastTest, process, procs, buffer, openFiles, files, stops,
                   starts, server, wire, fed, got>>

\* lines 326-333: the timeout callback of one attempt
TimerFire(t) ==
    /\ t \in timers
    /\ ~MicrotaskPending
    /\ LET st0 == [Client EXCEPT !.timers = @ \ {t}]
           pr == [call |-> t.call, attempt |-> t.attempt, seq |-> t.seq]
       IN  IF t.seq \in DOMAIN pendingRequests
           THEN Commit(RejectPromise(
                    [st0 EXCEPT !.pendingRequests = MapDelete(@, t.seq),
                                !.pendingLog = LogRemove(@, t.seq, "timer")],
                    pr, TimeoutError(reqs[t.call].command, t.delay), "timer", 0))
           ELSE Commit(st0)
    /\ UNCHANGED <<main, logger, tools, now, cuts, fastTest, process, procs, buffer, openFiles, files, stops,
                   starts, server, wire, fed, got>>

(***************************************************************************)
(* start(), lines 25-138.                                                  *)
(***************************************************************************)
StartDelayFastMs == 100
StartDelayMs == 2000

NextPid == CHOOSE p \in Pids : procs[p].state = "none" /\ \A q \in 1..(p - 1) : procs[q].state # "none"

Start ==
    /\ process = 0
    /\ \E p \in Pids : procs[p].state = "none"
    /\ process' = NextPid
    /\ procs' = [procs EXCEPT ![NextPid].state = "running"]
    /\ starts' = [starts EXCEPT ![NextPid] =
                     [pc |-> "timer",
                      delay |-> IF fastTest THEN StartDelayFastMs ELSE StartDelayMs]]
    /\ UNCHANGED <<main, logger, tools, now, cuts, fastTest, sequence, pendingRequests, buffer, openFiles, timers,
                   reqs, files, stops, server, pendingLog, emitted, wire, fed, got>>

\* lines 112-136 with the test-mode branch taken whatever the mode: start()
\* resolves when its timer fires
StartTimerFireNoWarmUp(p) ==
    /\ starts[p].pc = "timer"
    /\ ~MicrotaskPending
    /\ starts' = [starts EXCEPT ![p].pc = "resolved"]
    /\ UNCHANGED <<main, logger, tools, now, cuts, fastTest, process, procs, sequence, pendingRequests,
                   buffer, openFiles, timers, reqs, files, stops, server,
                   pendingLog, emitted, wire, fed, got>>

\* lines 112-136: the initialisation timer of start()
StartTimerFire(p) ==
    /\ starts[p].pc = "timer"
    /\ ~MicrotaskPending
    /\ IF fastTest
       THEN /\ starts' = [starts EXCEPT ![p].pc = "resolved"]
            /\ UNCHANGED <<sequence, pendingRequests, pendingLog, reqs, timers,
                           emitted>>
       ELSE /\ sequence <= MaxSeq
            /\ starts' = [starts EXCEPT ![p].pc = "configuring"]
            /\ Commit(RequestCall(Client, ConfigCall(p), CmdConfigure))
    /\ UNCHANGED <<main, logger, tools, now, cuts, fastTest, process, procs, buffer, openFiles, files, stops,
                   server, wire, fed, got>>

\* the outcome of the promise start() returned for process p
StartOutcome(p) ==
    IF starts[p].pc = "configuring"
    THEN IF reqs[ConfigCall(p)].pc = "resolved" THEN "resolved"
         ELSE IF reqs[ConfigCall(p)].pc = "rejected" THEN "rejected"
         ELSE "configuring"
    ELSE starts[p].pc

\* lines 98-109: the 'exit' listener start() registered on process p
ProcessExit(p) ==
    /\ procs[p].state = "running"
    /\ ~MicrotaskPending
    /\ procs' = [procs EXCEPT ![p].state = "exited"]
    /\ process' = 0
    /\ emitted' = Append(emitted, [channel |-> "exit", event |-> <<>>,
                                   body |-> <<>>])
    /\ stops' = [k \in StopCalls |->
                    IF stops[k].pc = "waiting" /\ stops[k].proc = p
                    THEN [stops[k] EXCEPT !.pc = "resuming"]
                    ELSE stops[k]]
    /\ UNCHANGED <<main, logger, tools, now, cuts, fastTest, sequence, pendingRequests,
                   buffer, openFiles, timers, reqs, files, starts, server,
                   pendingLog, wire, fed, got>>

(***************************************************************************)
(* stop(), lines 408-458.                                                  *)
(***************************************************************************)
RECURSIVE CancelAll(_, _)
CancelAll(st, keys) ==
    IF keys = {} THEN st
    ELSE LET s == CHOOSE x \in keys : \A y \in keys : x <= y
         IN  CancelAll(RejectPromise(st, st.pendingRequests[s], ShuttingDownText,
                                     "stop", 0),
                       keys \ {s})

RECURSIVE ClearLog(_, _)
ClearLog(log, keys) ==
    IF keys = {} THEN log
    ELSE LET s == CHOOSE x \in keys : TRUE
         IN  ClearLog(LogRemove(log, s, "stop"), keys \ {s})

\* stop() without line 418: the rejected entries stay in the map
CancelPendingKeep(st) == CancelAll(st, DOMAIN st.pendingRequests)

CancelPending(st) ==
    LET st1 == CancelAll(st, DOMAIN st.pendingRequests)
    IN  [st1 EXCEPT !.pendingRequests = <<>>,
                    !.pendingLog = ClearLog(@, DOMAIN st.pendingRequests)]

StopRecord(pc, delay) ==
    [pc |-> pc, delay |-> delay, armed |-> now, proc |-> process,
     live |-> {p \in Pids : procs[p].state = "running" /\ ~procs[p].killed},
     cancelled |-> {c \in CallIds : reqs[c].pc = "waiting"}]

StopStep(k) ==
    /\ stops[k].pc = "idle"
    /\ \A j \in 1..(k - 1) : stops[j].pc # "idle"
    /\ Commit(CancelPending(Client))
    /\ IF process # 0
       THEN /\ server' = [server EXCEPT ![process].exitCmd = TRUE]
            /\ stops' = [stops EXCEPT ![k] = StopRecord("waiting", GraceMs)]
            /\ UNCHANGED openFiles
       ELSE /\ openFiles' = {}
            /\ stops' = [stops EXCEPT ![k] = StopRecord("done", 0)]
            /\ UNCHANGED server
    /\ UNCHANGED <<logger, tools, now, cuts, fastTest, process, procs, buffer, files, starts, wire, fed, got>>

Stop(k) == StopStep(k) /\ UNCHANGED main

\* line 441: the grace timer wins the race of line 444
GraceFire(k) ==
    /\ stops[k].pc = "waiting"
    /\ ~MicrotaskPending
    /\ stops' = [stops EXCEPT ![k].pc = "resuming"]
    /\ UNCHANGED <<main, logger, tools, now, cuts, fastTest, process, procs, sequence, pendingRequests, buffer,
                   openFiles, timers, reqs, files, starts, server, pendingLog,
                   emitted, wire, fed, got>>

\* lines 446-457: stop() continues after the race
StopFinish(k) ==
    /\ stops[k].pc = "resuming"
    /\ procs' = IF process # 0 /\ ~procs[process].killed
                THEN [procs EXCEPT ![process].killed = TRUE]
                ELSE procs
    /\ process' = 0
    /\ openFiles' = {}
    /\ stops' = [stops EXCEPT ![k].pc = "done"]
    /\ UNCHANGED <<main, logger, tools, now, cuts, fastTest, sequence, pendingRequests, buffer, timers, reqs,
                   files, starts, server, pendingLog, emitted, wire, fed, got>>

(***************************************************************************)
(* notify, openFile, closeFile: lines 256-285 and 376-406.                 *)
(***************************************************************************)
ServerTold(sv, op, path) ==
    IF op = "open"
    THEN [sv EXCEPT !.dupOpen = @ \/ path \in sv.open,
                    !.open = @ \cup {path},
                    !.opens[path] = @ + 1]
    ELSE [sv EXCEPT !.strayClose = @ \/ path \notin sv.open,
                    !.open = @ \ {path},
                    !.closes[path] = @ + 1]

\* the openFile()/closeFile() calls whose promise has settled
FilesDone == {g \in FileCalls : files[g].pc \in {"done", "failed"}}

Skips(op, path) ==
    IF op = "open" THEN path \in openFiles ELSE path \notin openFiles

FileCallStep(f, op, path) ==
    /\ files[f].pc = "idle"
    /\ \A g \in 1..(f - 1) : files[g].pc # "idle"
    /\ IF Skips(op, path)
       THEN /\ files' = [files EXCEPT ![f] =
                   [pc |-> "done", op |-> op, path |-> path,
                    had |-> path \in openFiles, wrote |-> FALSE,
                    proc |-> process, seen |-> FilesDone]]
            /\ UNCHANGED <<sequence, server>>
       ELSE IF process = 0
       THEN /\ files' = [files EXCEPT ![f] =
                   [pc |-> "failed", op |-> op, path |-> path,
                    had |-> path \in openFiles, wrote |-> FALSE,
                    proc |-> process, seen |-> FilesDone]]
            /\ UNCHANGED <<sequence, server>>
       ELSE /\ sequence <= MaxSeq
            /\ sequence' = sequence + 1
            /\ server' = [server EXCEPT ![process] = ServerTold(@, op, path)]
            /\ files' = [files EXCEPT ![f] =
                   [pc |-> "notified", op |-> op, path |-> path,
                    had |-> path \in openFiles, wrote |-> TRUE,
                    proc |-> process, seen |-> FilesDone]]
    /\ UNCHANGED <<main, logger, now, cuts, fastTest, process, procs, pendingRequests, buffer, openFiles,
                   timers, reqs, stops, starts, pendingLog, emitted, wire, fed, got>>

FileCall(f, op, path) == FileCallStep(f, op, path) /\ UNCHANGED tools

OpenFile(f, path) == FileCall(f, "open", path)

CloseFile(f, path) == FileCall(f, "close", path)

\* lines 385 and 401: the code after `await this.notify(...)`
FileFinish(f) ==
    /\ files[f].pc = "notified"
    /\ openFiles' = IF files[f].op = "open"
                    THEN openFiles \cup {files[f].path}
                    ELSE openFiles \ {files[f].path}
    /\ files' = [files EXCEPT ![f].pc = "done"]
    /\ UNCHANGED <<main, logger, tools, now, cuts, fastTest, process, procs, sequence, pendingRequests, buffer,
                   timers, reqs, stops, starts, server, pendingLog, emitted,
                   wire, fed, got>>

(***************************************************************************)
(* The tool operations: getDefinition, getHover, getReferences, getRename, *)
(* getDiagnostics and organizeImports.  Each awaits client.openFile, then  *)
(* its requests inside try, and client.closeFile inside finally.           *)
(***************************************************************************)
Tools ==
    {"definition", "hover", "references", "rename", "diagnostics",
     "organizeImports"}

\* the commands a tool requests, in order
ToolCommands(kind) ==
    CASE kind = "definition" -> <<CmdDefinition>>
      [] kind = "hover" -> <<CmdQuickinfo>>
      [] kind = "references" -> <<CmdReferences>>
      [] kind = "rename" -> <<CmdRename>>
      [] kind = "diagnostics" -> <<CmdSyntacticDiagnostics, CmdSemanticDiagnostics>>
      [] kind = "organizeImports" -> <<CmdOrganizeImports>>
      [] OTHER -> <<>>

\* the catch clause of the tool, if it has one: what the tool is about to
\* return or throw when a request was rejected with error
Caught(kind, error) ==
    IF kind = "hover" THEN [kind |-> "null", value |-> <<>>]
    ELSE IF kind = "organizeImports" THEN [kind |-> "failure", value |-> <<>>]
    ELSE [kind |-> "throw", value |-> error]

\* the first free slot for a call of openFile()/closeFile(), of request()
FreeFileCall(f) == files[f].pc = "idle" /\ \A g \in 1..(f - 1) : files[g].pc # "idle"

FreeCall(c) == reqs[c].pc = "idle" /\ \A b \in 1..(c - 1) : reqs[b].pc # "idle"

\* the tool is called: it runs up to `await client.openFile(file)`
ToolCall(t, kind, path) ==
    /\ tools[t].pc = "idle"
    /\ \A u \in 1..(t - 1) : tools[u].pc # "idle"
    /\ \E f \in FileCalls :
           /\ FreeFileCall(f)
           /\ FileCallStep(f, "open", path)
           /\ tools' = [tools EXCEPT ![t] =
                  [NoTool EXCEPT !.pc = "opening", !.kind = kind, !.path = path,
                                 !.file = f, !.slots = <<f>>,
                                 !.calls = <<"openFile">>]]

\* the finally clause: `await client.closeFile(file)` with ret kept for after
Finally(t, ret) ==
    \E f \in FileCalls :
        /\ FreeFileCall(f)
        /\ FileCallStep(f, "close", tools[t].path)
        /\ tools' = [tools EXCEPT ![t].pc = "closing", ![t].file = f,
                                  ![t].slots = Append(@, f),
                                  ![t].ret = ret,
                                  ![t].calls = Append(@, "closeFile")]

\* the tool sends its next request
SendNext(t) ==
    \E c \in UserCalls :
        /\ FreeCall(c)
        /\ RequestStep(c, ToolCommands(tools[t].kind)[Len(tools[t].sent) + 1])
        /\ tools' = [tools EXCEPT ![t].pc = "requesting",
                                  ![t].sent = Append(@, c),
                                  ![t].calls = Append(@, "request")]

\* the tool leaves without having entered try
Leave(t, ret) ==
    /\ tools' = [tools EXCEPT ![t].pc = IF ret.kind = "throw" THEN "thrown"
                                        ELSE "returned",
                              ![t].ret = ret]
    /\ UNCHANGED <<main, logger, now, cuts, fastTest, process, procs, sequence, pendingRequests,
                   buffer, openFiles, timers, reqs, files, stops, starts, server,
                   pendingLog, emitted, wire, fed, got>>

\* openFile() has settled: the tool enters try and sends its first request,
\* or throws what openFile() threw
ToolOpened(t) ==
    /\ tools[t].pc = "opening"
    /\ ToolReady(t)
    /\ IF files[tools[t].file].pc = "failed"
       THEN Leave(t, [kind |-> "throw", value |-> NotStartedText])
       ELSE SendNext(t)

\* the tool without its finally clause when a request was rejected: it
\* leaves through catch at once
ToolSettledNoFinally(t) ==
    /\ tools[t].pc = "requesting"
    /\ ToolReady(t)
    /\ LET rq == reqs[tools[t].sent[Len(tools[t].sent)]]
       IN  IF rq.pc = "rejected"
           THEN Leave(t, Caught(tools[t].kind, rq.value))
           ELSE IF Len(tools[t].sent) < Len(ToolCommands(tools[t].kind))
           THEN SendNext(t)
           ELSE Finally(t, [kind |-> "value",
                            value |-> [i \in 1..Len(tools[t].sent) |->
                                           reqs[tools[t].sent[i]].value]])

\* a request has settled: the tool sends the next one, or leaves try with
\* its value, or through catch, and enters finally
ToolSettled(t) ==
    /\ tools[t].pc = "requesting"
    /\ ToolReady(t)
    /\ LET rq == reqs[tools[t].sent[Len(tools[t].sent)]]
       IN  IF rq.pc = "rejected"
           THEN Finally(t, Caught(tools[t].kind, rq.value))
           ELSE IF Len(tools[t].sent) < Len(ToolCommands(tools[t].kind))
           THEN SendNext(t)
           ELSE Finally(t, [kind |-> "value",
                            value |-> [i \in 1..Len(tools[t].sent) |->
                                           reqs[tools[t].sent[i]].value]])

\* closeFile() has settled: the tool returns or throws what try/catch left,
\* unless closeFile() threw, which is then what the tool throws
ToolClosed(t) ==
    /\ tools[t].pc = "closing"
    /\ ToolReady(t)
    /\ IF files[tools[t].file].pc = "failed"
       THEN Leave(t, [kind |-> "throw", value |-> NotStartedText])
       ELSE Leave(t, tools[t].ret)

(***************************************************************************)
(* The CallTool handler of the MCP server (index.ts, lines 169-289).       *)
(***************************************************************************)
ToolNames ==
    {"ts_definition", "ts_hover", "ts_references", "ts_rename", "ts_diagnostics",
     "ts_organize_imports"}

\* the switch of lines 177-268
ToolOf(name) ==
    CASE name = "ts_definition" -> "definition"
      [] name = "ts_hover" -> "hover"
      [] name = "ts_references" -> "references"
      [] name = "ts_rename" -> "rename"
      [] name = "ts_diagnostics" -> "diagnostics"
      [] name = "ts_organize_imports" -> "organizeImports"
      [] OTHER -> "none"

\* lines 272-288: the catch clause of the handler
ErrorResponse(errorMessage) ==
    [kind |-> "result", isError |-> TRUE, text |-> ErrorPrefix \o errorMessage]

\* the handler is called: without arguments it throws before the switch, an
\* unknown name throws inside try, a known name calls its tool
CallTool(t, name, hasArgs, path) ==
    IF ~hasArgs
    THEN /\ tools[t].pc = "idle"
         /\ \A u \in 1..(t - 1) : tools[u].pc # "idle"
         /\ Leave(t, [kind |-> "throw", value |-> ArgumentsRequiredText])
    ELSE IF name \notin ToolNames
    THEN /\ tools[t].pc = "idle"
         /\ \A u \in 1..(t - 1) : tools[u].pc # "idle"
         /\ tools' = [tools EXCEPT
                ![t].pc = "answered",
                ![t].ret = [kind |-> "throw", value |-> UnknownToolPrefix \o UnknownToolName],
                ![t].response = ErrorResponse(UnknownToolPrefix \o UnknownToolName)]
         /\ UNCHANGED <<main, logger, now, cuts, fastTest, process, procs, sequence, pendingRequests,
                        buffer, openFiles, timers, reqs, files, stops, starts, server,
                        pendingLog, emitted, wire, fed, got>>
    ELSE ToolCall(t, ToolOf(name), path)

\* lines 272-288 letting the exception pass instead of answering
CallToolAnsweredRethrow(t) ==
    /\ tools[t].pc \in {"returned", "thrown"}
    /\ tools[t].calls # <<>>
    /\ tools' = [tools EXCEPT
           ![t].pc = "answered",
           ![t].response =
               IF tools[t].pc = "thrown"
               THEN [kind |-> "exception", isError |-> FALSE, text |-> tools[t].ret.value]
               ELSE [kind |-> "result", isError |-> FALSE, text |-> <<>>]]
    /\ UNCHANGED <<main, logger, now, cuts, fastTest, process, procs, sequence, pendingRequests,
                   buffer, openFiles, timers, reqs, files, stops, starts, server,
                   pendingLog, emitted, wire, fed, got>>

\* the tool has returned or thrown: the handler returns the result (its text
\* is a serialisation of what the tool returned, which ret keeps) or the
\* error response of its catch clause
CallToolAnswered(t) ==
    /\ tools[t].pc \in {"returned", "thrown"}
    /\ tools[t].calls # <<>>
    /\ tools' = [tools EXCEPT
           ![t].pc = "answered",
           ![t].response =
               IF tools[t].pc = "thrown"
               THEN ErrorResponse(tools[t].ret.value)
               ELSE [kind |-> "result", isError |-> FALSE, text |-> <<>>]]
    /\ UNCHANGED <<main, logger, now, cuts, fastTest, process, procs, sequence, pendingRequests,
                   buffer, openFiles, timers, reqs, files, stops, starts, server,
                   pendingLog, emitted, wire, fed, got>>

(***************************************************************************)
(* stdout 'data' listener, lines 67-73: one chunk through handleData.      *)
(***************************************************************************)
\* r is what handleData makes of the buffer and the chunk
StdoutParsed(r) ==
    /\ buffer' = r.buffer
    /\ Commit(Deliver(Client, r.contents))

StdoutData(data) == \E r \in {HandleData(buffer, data)} : StdoutParsed(r)

\* what an external process may answer to request rs
ResultBody(rs) == <<"r", "e", "s", "u", "l", "t">> \o ToDigits(rs)

NotFoundMessage(rs) == FileNotFoundText \o <<":", " ">> \o ToDigits(rs)

DebugFailureMessage(rs) == DebugFailure \o <<":", " ">> \o ToDigits(rs)

ReplyKinds == {"success", "failure", "debugFailure"}

Reply(rs, kind) ==
    IF kind = "success" THEN SuccessJson(rs, ResultBody(rs))
    ELSE IF kind = "failure" THEN FailureJson(rs, NotFoundMessage(rs))
    ELSE FailureJson(rs, DebugFailureMessage(rs))

\* one chunk holding one response, or the responses to two pending requests
ServerChunk(p) ==
    /\ procs[p].state = "running"
    /\ ~MicrotaskPending
    /\ \/ \E rs \in 1..(sequence - 1), kind \in ReplyKinds :
              StdoutData(Frame(Reply(rs, kind)))
       \/ \E a, b \in DOMAIN pendingRequests, kind \in ReplyKinds :
              /\ a # b
              /\ StdoutData(Frame(Reply(a, "success")) \o Frame(Reply(b, kind)))
    /\ UNCHANGED <<main, logger, tools, now, cuts, fastTest, process, procs, openFiles, files, stops, starts,
                   server, wire, fed, got>>

(***************************************************************************)
(* The client from construction (fast-test mode, as the unit tests build   *)
(* it): start, stop, process exits and restarts around one request() call. *)
(***************************************************************************)
SoloCalls == 1

\* start() while fewer than MaxStarts processes have been spawned
BoundedStart == procs[MaxStarts].state = "none" /\ Start

Lifecycle ==
    \/ BoundedStart
    \/ \E p \in Pids : StartTimerFire(p)
    \/ \E p \in Pids : ProcessExit(p)
    \/ \E k \in StopCalls : Stop(k)
    \/ \E k \in StopCalls : GraceFire(k)
    \/ \E k \in StopCalls : StopFinish(k)

Next ==
    \/ Lifecycle
    \/ \E p \in Pids : ServerChunk(p)
    \/ \E c \in 1..SoloCalls : Request(c, CmdDefinition)
    \/ \E c \in CallIds : BackoffFire(c)
    \/ \E t \in timers : TimerFire(t)

Spec == Init /\ [][Next]_vars

(***************************************************************************)
(* Concurrent request() calls on a started client (the state the tests'    *)
(* beforeEach leaves: start() has resolved in fast-test mode).             *)
(***************************************************************************)
Started ==
    /\ fastTest = TRUE
    /\ process = 1
    /\ procs = [p \in Pids |-> IF p = 1 THEN [NoProc EXCEPT !.state = "running"]
                                ELSE NoProc]
    /\ starts = [p \in Pids |-> IF p = 1
                                 THEN [pc |-> "resolved", delay |-> StartDelayFastMs]
                                 ELSE NoStart]
    /\ buffer = <<>>
    /\ openFiles = {}
    /\ files = [f \in FileCalls |-> NoFileCall]
    /\ stops = [k \in StopCalls |-> NoStop]
    /\ server = [p \in Pids |-> NoServer]
    /\ emitted = <<>>
    /\ fed = <<>>
    /\ got = <<>>
    /\ now = 0
    /\ cuts = <<>>
    /\ tools = [t \in ToolCalls |-> NoTool]
    /\ logger = NoLogger
    /\ main = NoMain

InitCalls ==
    /\ Started
    /\ sequence = InitialSequence
    /\ pendingRequests = <<>>
    /\ pendingLog = <<>>
    /\ reqs = [c \in CallIds |-> NoRequest]
    /\ timers = {}
    /\ wire = <<>>

NextCalls ==
    \/ \E p \in Pids : ServerChunk(p)
    \/ \E c \in UserCalls, command \in Commands : Request(c, command)
    \/ \E c \in CallIds : BackoffFire(c)
    \/ \E t \in timers : TimerFire(t)
    \/ \E p \in Pids : ProcessExit(p)
    \/ Stop(1)
    \/ GraceFire(1)
    \/ StopFinish(1)

SpecCalls == InitCalls /\ [][NextCalls]_vars

(***************************************************************************)
(* openFile()/closeFile() calls around start, stop, exits and restarts.    *)
(***************************************************************************)
NextFiles ==
    \/ Lifecycle
    \/ \E f \in FileCalls, path \in Paths : OpenFile(f, path)
    \/ \E f \in FileCalls, path \in Paths : CloseFile(f, path)
    \/ \E f \in FileCalls : FileFinish(f)

SpecFiles == Init /\ [][NextFiles]_vars

(***************************************************************************)
(* Tool operations on a started client: the process answers, stays silent  *)
(* until a request times out, or exits.                                    *)
(***************************************************************************)
\* one tool operation at a time
SoloTools == 1

NextTools ==
    \/ \E t \in 1..SoloTools, kind \in Tools, path \in Paths : ToolCall(t, kind, path)
    \/ \E t \in ToolCalls : ToolOpened(t)
    \/ \E t \in ToolCalls : ToolSettled(t)
    \/ \E t \in ToolCalls : ToolClosed(t)
    \/ \E f \in FileCalls : FileFinish(f)
    \/ \E p \in Pids : ServerChunk(p)
    \/ \E c \in CallIds : BackoffFire(c)
    \/ \E t \in timers : TimerFire(t)
    \/ \E p \in Pids : ProcessExit(p)
    \/ Stop(1)
    \/ GraceFire(1)
    \/ StopFinish(1)

SpecTools == InitCalls /\ [][NextTools]_vars

(***************************************************************************)
(* Two tool operations called concurrently on the same file of a started   *)
(* client whose process answers every request in some order.               *)
(***************************************************************************)
PairTools == {"definition", "hover"}

NextPair ==
    \/ \E t \in ToolCalls, kind \in PairTools, path \in Paths : ToolCall(t, kind, path)
    \/ \E t \in ToolCalls : ToolOpened(t)
    \/ \E t \in ToolCalls : ToolSettled(t)
    \/ \E t \in ToolCalls : ToolClosed(t)
    \/ \E f \in FileCalls : FileFinish(f)
    \/ \E p \in Pids : ServerChunk(p)
    \/ \E c \in CallIds : BackoffFire(c)
    \/ \E t \in timers : TimerFire(t)

SpecPair == InitCalls /\ [][NextPair]_vars

(***************************************************************************)
(* The lifecycle alone, with up to MaxProcs processes: start, stop, the    *)
(* grace timer, and the exit events of the processes, each delivered at    *)
(* any time after its process was spawned.                                 *)
(***************************************************************************)
NextLife ==
    \/ Start
    \/ \E p \in Pids : StartTimerFire(p)
    \/ \E p \in Pids : ProcessExit(p)
    \/ \E k \in StopCalls : Stop(k)
    \/ \E k \in StopCalls : GraceFire(k)
    \/ \E k \in StopCalls : StopFinish(k)

SpecLife == Init /\ [][NextLife]_vars

(***************************************************************************)
(* The framer: a stream of frames reaches the stdout listener cut into     *)
(* chunks at arbitrary places, while two requests are pending.             *)
(***************************************************************************)
MaxFrames == 2

\* a well-framed slice that is not JSON: a response cut short
BadFrame == Frame(BadJson)

WireFrames ==
    {Frame(Reply(1, "success")), FrameCRLF(Reply(2, "success")),
     Frame(Reply(2, "failure")), Frame(EventJson(EventName, BodyX)),
     Frame(EventJson(OtherEventName, BodyY)), BadFrame}

RECURSIVE Streams(_)
Streams(n) ==
    IF n = 0 THEN {<<>>}
    ELSE Streams(n - 1) \cup {s \o f : s \in Streams(n - 1), f \in WireFrames}

RECURSIVE Parsed(_)
Parsed(contents) ==
    IF contents = <<>> THEN <<>>
    ELSE LET message == JsonParse(Head(contents))
         IN  (IF message.type = "invalid" THEN <<>> ELSE <<message>>)
             \o Parsed(Tail(contents))

InitFramer ==
    /\ Started
    /\ LET st0 == [sequence |-> InitialSequence, pendingRequests |-> <<>>,
                   pendingLog |-> <<>>, reqs |-> [c \in CallIds |-> NoRequest],
                   timers |-> {}, emitted |-> <<>>]
           st2 == RequestCall(RequestCall(st0, 1, CmdDefinition), 2, CmdDefinition)
       IN  /\ sequence = st2.sequence
           /\ pendingRequests = st2.pendingRequests
           /\ pendingLog = st2.pendingLog
           /\ reqs = st2.reqs
           /\ timers = st2.timers
    /\ wire \in Streams(MaxFrames) \ {<<>>}

\* the next n characters of the stream arrive as one 'data' event
Feed(n) ==
    /\ n \in 1..Len(wire)
    /\ LET data == SubSeq(wire, 1, n)
       IN  /\ \E r \in {HandleData(buffer, data)} :
                  /\ StdoutParsed(r)
                  /\ got' = got \o Parsed(r.contents)
           /\ fed' = fed \o data
           /\ wire' = SubSeq(wire, n + 1, Len(wire))
    /\ UNCHANGED <<main, logger, tools, now, fastTest, process, procs, openFiles, files,
                   stops, starts, server>>

FeedChunk(n) == Feed(n) /\ UNCHANGED cuts

NextFramer == \E n \in 1..Len(wire) : FeedChunk(n)

SpecFramer == InitFramer /\ [][NextFramer]_vars

(***************************************************************************)
(* The framing of the unit tests: every response is followed by a newline  *)
(* that its Content-Length does not count.                                 *)
(***************************************************************************)
TestFrame(json) == Frame(json) \o <<"\n">>

TestFrames ==
    {TestFrame(Reply(1, "success")), TestFrame(Reply(2, "success")),
     TestFrame(Reply(2, "failure")), TestFrame(EventJson(EventName, BodyX))}

RECURSIVE TestStreams(_)
TestStreams(n) ==
    IF n = 0 THEN {<<>>}
    ELSE TestStreams(n - 1) \cup {s \o f : s \in TestStreams(n - 1), f \in TestFrames}

InitTest ==
    /\ Started
    /\ LET st0 == [sequence |-> InitialSequence, pendingRequests |-> <<>>,
                   pendingLog |-> <<>>, reqs |-> [c \in CallIds |-> NoRequest],
                   timers |-> {}, emitted |-> <<>>]
           st2 == RequestCall(RequestCall(st0, 1, CmdDefinition), 2, CmdDefinition)
       IN  /\ sequence = st2.sequence
           /\ pendingRequests = st2.pendingRequests
           /\ pendingLog = st2.pendingLog
           /\ reqs = st2.reqs
           /\ timers = st2.timers
    /\ wire \in TestStreams(MaxFrames) \ {<<>>}

SpecTest == InitTest /\ [][NextFramer]_vars

(***************************************************************************)
(* start() in either mode, with the warm-up request of the normal mode:    *)
(* the process answers it, lets it time out or exits, and the client may   *)
(* be stopped and started again.                                           *)
(***************************************************************************)
InitWarm == \E fast \in BOOLEAN : Fresh(fast)

NextWarm ==
    \/ BoundedStart
    \/ \E p \in Pids : StartTimerFire(p)
    \/ \E p \in Pids : ServerChunk(p)
    \/ \E c \in CallIds : BackoffFire(c)
    \/ \E t \in timers : TimerFire(t)
    \/ \E p \in Pids : ProcessExit(p)
    \/ Stop(1)
    \/ GraceFire(1)
    \/ StopFinish(1)

SpecWarm == InitWarm /\ [][NextWarm]_vars

(***************************************************************************)
(* The scenario of one response to request 1 arriving in up to MaxCuts     *)
(* chunks, its header announcing either the length of the JSON text or the *)
(* given length.                                                           *)
(***************************************************************************)
ScenarioJson == SuccessJson(InitialSequence, BodyX)

ScenarioFrame(n) == HeaderPrefix \o ToDigits(n) \o <<"\n", "\n">> \o ScenarioJson

ScenarioLengths == {42, Len(ScenarioJson)}

InitScenario ==
    /\ Started
    /\ LET st0 == [sequence |-> InitialSequence, pendingRequests |-> <<>>,
                   pendingLog |-> <<>>, reqs |-> [c \in CallIds |-> NoRequest],
                   timers |-> {}, emitted |-> <<>>]
           st1 == RequestCall(st0, 1, CmdDefinition)
       IN  /\ sequence = st1.sequence
           /\ pendingRequests = st1.pendingRequests
           /\ pendingLog = st1.pendingLog
           /\ reqs = st1.reqs
           /\ timers = st1.timers
    /\ wire \in {ScenarioFrame(n) : n \in ScenarioLengths}

ScenarioChunk(n) ==
    /\ Len(cuts) < MaxCuts
    /\ Feed(n)
    /\ cuts' = Append(cuts, n)

NextScenario == \E n \in 1..Len(wire) : ScenarioChunk(n)

SpecScenario == InitScenario /\ [][NextScenario]_vars

(***************************************************************************)
(* One request() call and one stop() on a started client with the clock    *)
(* running, the process staying up until it is terminated: time advances   *)
(* from one deadline to the next, and a setTimeout callback runs only once *)
(* its delay has elapsed since it was armed (it may run late, after        *)
(* callbacks that became due after it).                                    *)
(***************************************************************************)
\* the times at which an armed callback becomes due
Deadlines ==
    {t.armed + t.delay : t \in timers}
    \cup {reqs[c].failedAt + reqs[c].delay : c \in {d \in CallIds : reqs[d].pc = "backoff"}}
    \cup {stops[k].armed + stops[k].delay : k \in {j \in StopCalls : stops[j].pc = "waiting"}}

\* the clock moves on to the next time at which an armed callback is due
Tick ==
    /\ ~MicrotaskPending
    /\ \E next \in Deadlines :
           /\ next > now
           /\ next <= MaxNow
           /\ \A d \in Deadlines : d > now => next <= d
           /\ now' = next
    /\ UNCHANGED <<main, logger, tools, fastTest, process, procs, sequence, pendingRequests,
                   buffer,
                   openFiles, timers, reqs, files, stops, starts, server,
                   pendingLog, emitted, wire, fed, got, cuts>>

Due(armed, delay) == now >= armed + delay

ClockTimerFire(t) == Due(t.armed, t.delay) /\ TimerFire(t)

ClockBackoffFire(c) == Due(reqs[c].failedAt, reqs[c].delay) /\ BackoffFire(c)

ClockGraceFire(k) == Due(stops[k].armed, stops[k].delay) /\ GraceFire(k)

NextClock ==
    \/ Tick
    \/ \E p \in Pids : ServerChunk(p)
    \/ \E c \in 1..SoloCalls, command \in Commands : Request(c, command)
    \/ \E c \in CallIds : ClockBackoffFire(c)
    \/ \E t \in timers : ClockTimerFire(t)
    \/ Stop(1)
    \/ ClockGraceFire(1)
    \/ StopFinish(1)

SpecClock == InitCalls /\ [][NextClock]_vars

(***************************************************************************)
(* One request() call on a started client under fair scheduling: armed     *)
(* timers fire and the continuation of stop() runs, while the process      *)
(* answers, sends what nobody asked for or what is not JSON, exits, or the  *)
(* client is stopped.                                                      *)
(***************************************************************************)
BadChunk(p) ==
    /\ procs[p].state = "running"
    /\ ~MicrotaskPending
    /\ StdoutData(BadFrame)
    /\ UNCHANGED <<main, logger, tools, now, cuts, fastTest, process, procs, openFiles, files, stops, starts,
                   server, wire, fed, got>>

NextLive ==
    \/ \E p \in Pids : ServerChunk(p)
    \/ \E p \in Pids : BadChunk(p)
    \/ \E c \in 1..SoloCalls, command \in Commands : Request(c, command)
    \/ \E c \in CallIds : BackoffFire(c)
    \/ \E t \in timers : TimerFire(t)
    \/ \E p \in Pids : ProcessExit(p)
    \/ Stop(1)
    \/ GraceFire(1)
    \/ StopFinish(1)

SpecLive ==
    /\ InitCalls
    /\ [][NextLive]_vars
    /\ WF_vars(\E t \in timers : TimerFire(t))
    /\ WF_vars(\E c \in CallIds : BackoffFire(c))
    /\ WF_vars(GraceFire(1))
    /\ WF_vars(StopFinish(1))

(***************************************************************************)
(* Tool calls arriving at the MCP server one at a time, with a known or an *)
(* unknown name, with or without arguments, on a started client whose      *)
(* process answers, fails, stays silent or exits.                          *)
(***************************************************************************)
RequestedNames == ToolNames \cup {"ts_format"}

NextHandler ==
    \/ \E t \in 1..SoloTools, name \in RequestedNames, hasArgs \in BOOLEAN, path \in Paths :
           CallTool(t, name, hasArgs, path)
    \/ \E t \in ToolCalls : CallToolAnswered(t)
    \/ \E t \in ToolCalls : ToolOpened(t)
    \/ \E t \in ToolCalls : ToolSettled(t)
    \/ \E t \in ToolCalls : ToolClosed(t)
    \/ \E f \in FileCalls : FileFinish(f)
    \/ \E p \in Pids : ServerChunk(p)
    \/ \E c \in CallIds : BackoffFire(c)
    \/ \E t \in timers : TimerFire(t)
    \/ \E p \in Pids : ProcessExit(p)

SpecHandler == InitCalls /\ [][NextHandler]_vars

(***************************************************************************)
(* One request() call and stop() on a started client whose process also    *)
(* answers the exit command, which stop() writes with seq 0.               *)
(***************************************************************************)
ExitReply(p) ==
    /\ procs[p].state = "running"
    /\ server[p].exitCmd
    /\ ~MicrotaskPending
    /\ fed = <<>>
    /\ \E kind \in ReplyKinds :
           /\ StdoutData(Frame(Reply(0, kind)))
           /\ fed' = Frame(Reply(0, kind))
    /\ UNCHANGED <<main, logger, tools, now, cuts, fastTest, process, procs, openFiles, files, stops, starts,
                   server, wire, got>>

NextExit ==
    \/ \E p \in Pids : ServerChunk(p)
    \/ \E p \in Pids : ExitReply(p)
    \/ \E c \in 1..SoloCalls, command \in Commands : Request(c, command)
    \/ \E c \in CallIds : BackoffFire(c)
    \/ \E t \in timers : TimerFire(t)
    \/ \E p \in Pids : ProcessExit(p)
    \/ Stop(1)
    \/ GraceFire(1)
    \/ StopFinish(1)

SpecExit == InitCalls /\ [][NextExit]_vars

\* ConfigManager.load(), called once by run(): the file's debug section is
\* merged over the defaults.
Load(debug) ==
    /\ ~logger.loaded
    /\ logger' = [logger EXCEPT !.config = debug, !.loaded = TRUE]
    /\ UNCHANGED <<main, tools, now, cuts, fastTest, process, procs, sequence, pendingRequests,
                   buffer, openFiles, timers, reqs, files, stops, starts, server,
                   pendingLog, emitted, wire, fed, got>>

\* Logger.log(level, ...), with the write to the file it starts.
Log(level) ==
    /\ Len(logger.calls) < MaxLogs
    /\ LET entry == [serial |-> Len(logger.calls) + 1, level |-> level]
       IN  logger' =
               IF ~ShouldLog(logger.config, level)
               THEN [logger EXCEPT !.calls = Append(@, level)]
               ELSE [logger EXCEPT
                        !.calls = Append(@, level),
                        !.console = Append(@, entry),
                        !.dir = WriteToFile(@, logger.config, entry)]
    /\ UNCHANGED <<main, tools, now, cuts, fastTest, process, procs, sequence, pendingRequests,
                   buffer, openFiles, timers, reqs, files, stops, starts, server,
                   pendingLog, emitted, wire, fed, got>>

NextLogger ==
    \/ \E debug \in DebugConfigs : Load(debug)
    \/ \E level \in LogLevels : Log(level)

SpecLogger == Init /\ [][NextLogger]_vars

(***************************************************************************)
(* main() of the MCP server (index.ts, lines 316-357): the shutdown        *)
(* triggers around the client's lifecycle.                                 *)
(***************************************************************************)
Signals == {"SIGINT", "SIGTERM", "disconnect", "uncaughtException", "unhandledRejection"}

\* process.exit has not been called
Alive == main.exitCode = -1

\* the stop() call that shutdown is awaiting
ShutdownStop ==
    CHOOSE k \in StopCalls :
        stops[k].pc # "idle" /\ \A j \in StopCalls : stops[j].pc # "idle" => j <= k

\* lines 320-323 left out: every trigger calls mcp.stop()
ShutdownUnguarded(signal) ==
    /\ Alive
    /\ main.triggers < MaxTriggers
    /\ \E k \in StopCalls : StopStep(k)
    /\ main' = [main EXCEPT !.isShuttingDown = TRUE, !.triggers = @ + 1,
                            !.signal = signal]

\* shutdown(signal), up to `await mcp.stop()`
Shutdown(signal) ==
    /\ Alive
    /\ main.triggers < MaxTriggers
    /\ IF main.isShuttingDown
       THEN /\ main' = [main EXCEPT !.exitCode = 1, !.triggers = @ + 1]
            /\ UNCHANGED <<logger, tools, now, cuts, fastTest, process, procs, sequence,
                           pendingRequests, buffer, openFiles, timers, reqs, files, stops,
                           starts, server, pendingLog, emitted, wire, fed, got>>
       ELSE /\ \E k \in StopCalls : StopStep(k)
            /\ main' = [main EXCEPT !.isShuttingDown = TRUE, !.triggers = @ + 1,
                                    !.signal = signal]

\* shutdown after `await mcp.stop()`: exit 0, or exit 1 from the catch clause
ShutdownSettled ==
    /\ Alive
    /\ main.isShuttingDown
    /\ stops[ShutdownStop].pc \in {"done", "failed"}
    /\ main' = [main EXCEPT !.exitCode = IF stops[ShutdownStop].pc = "done" THEN 0 ELSE 1]
    /\ UNCHANGED <<logger, tools, now, cuts, fastTest, process, procs, sequence,
                   pendingRequests, buffer, openFiles, timers, reqs, files, stops,
                   starts, server, pendingLog, emitted, wire, fed, got>>

NextMain ==
    \/ BoundedStart
    \/ \E p \in Pids : StartTimerFire(p)
    \/ \E p \in Pids : ProcessExit(p)
    \/ \E p \in Pids : ServerChunk(p)
    \/ \E c \in 1..SoloCalls : Request(c, CmdDefinition)
    \/ \E t \in timers : TimerFire(t)
    \/ \E signal \in Signals : Shutdown(signal)
    \/ \E k \in StopCalls : GraceFire(k)
    \/ \E k \in StopCalls : StopFinish(k)
    \/ ShutdownSettled

SpecMain == Init /\ [][NextMain]_vars


(***************************************************************************)
(*                              Properties                                 *)
(***************************************************************************)
Settled(rq) == rq.pc \in {"resolved", "rejected"}

\* the error a caller sees when the response carried the recoverable signature
WrappedDebugFailure(rs) ==
    DebugFailurePrefix \o DebugFailureMessage(rs) \o DebugFailureSuffix

(***************************************************************************)
(* C1: of concurrent request() calls whose responses arrive in any order,  *)
(* each caller that a response settles is settled by the response whose    *)
(* request_seq is its own sequence number: it resolves with the body of    *)
(* that response, or rejects with that response's failure message, never   *)
(* with what was sent in answer to another request.                        *)
(***************************************************************************)
C1_OwnResponseOnly ==
    \A c \in CallIds :
        Settled(reqs[c]) /\ reqs[c].by = "response" =>
            /\ reqs[c].reply = reqs[c].seq
            /\ reqs[c].pc = "resolved" => reqs[c].value = ResultBody(reqs[c].seq)
            /\ reqs[c].pc = "rejected" =>
                   reqs[c].value \in {NotFoundMessage(reqs[c].seq),
                                      WrappedDebugFailure(reqs[c].seq)}

\* both calls were in flight and the response to the later one came first
C1_Witness ==
    /\ reqs[1].pc = "waiting"
    /\ reqs[1].seq = 1
    /\ reqs[2].pc = "resolved"
    /\ reqs[2].by = "response"
    /\ reqs[2].seq = 2
    /\ reqs[2].value = ResultBody(2)

(***************************************************************************)
(* C2: every pending entry a send registers is removed from the map        *)
(* exactly once, by its response, by its own timer or by stop(), and its   *)
(* caller is settled exactly once, by that same event; a sequence number   *)
(* is registered once only.                                                *)
(***************************************************************************)
C2_RemovedOnceBySettlingEvent ==
    \A s \in DOMAIN pendingLog :
        /\ pendingLog[s].sets = 1
        /\ Len(pendingLog[s].removals) <= 1
        /\ \A i \in 1..Len(pendingLog[s].removals) :
               pendingLog[s].removals[i] \in {"response", "timer", "stop"}
        /\ pendingLog[s].settles = pendingLog[s].removals
        /\ s \in DOMAIN pendingRequests <=> pendingLog[s].removals = <<>>

(***************************************************************************)
(* C3: for every stream of well-formed frames and every way of cutting it  *)
(* into chunks (inside a header, inside a body, several messages in one    *)
(* chunk), the messages delivered chunk by chunk, and the text left in the *)
(* buffer, are those of feeding the same text to the framer in one piece.  *)
(***************************************************************************)
C3_ChunkingInvariant ==
    LET whole == HandleData(<<>>, fed)
    IN  /\ got = Parsed(whole.contents)
        /\ buffer = whole.buffer

\* one message is out, the next header has arrived in part, more is to come
C3_Witness ==
    /\ Len(got) = 1
    /\ buffer # <<>>
    /\ Len(buffer) < Len(HeaderPrefix)
    /\ wire # <<>>

(***************************************************************************)
(* C4: when a stop() that found K >= 1 requests pending has resolved, all  *)
(* K callers have been rejected with the shutting-down error, and every    *)
(* external process that was alive when stop() was called has exited or    *)
(* has been force-terminated.                                              *)
(***************************************************************************)
C4_StopCancelsAndTerminates ==
    \A k \in StopCalls :
        stops[k].pc = "done" /\ stops[k].cancelled # {} =>
            /\ \A c \in stops[k].cancelled :
                   /\ reqs[c].pc = "rejected"
                   /\ reqs[c].by = "stop"
                   /\ reqs[c].value = ShuttingDownText
            /\ \A p \in stops[k].live :
                   procs[p].state = "exited" \/ procs[p].killed

(***************************************************************************)
(* C5: whatever the order of stop() and the arrival of a response for a    *)
(* pending sequence number, the caller is settled once: a settled call     *)
(* never changes again; a caller is settled in the very step that removes  *)
(* its entry from the map, so the first of the two events to remove the    *)
(* entry decides; and a step removes no entry but those it settles and     *)
(* changes no entry that stays.                                            *)
(***************************************************************************)
C5_Step ==
    /\ \A c \in CallIds :
           /\ Settled(reqs[c]) => reqs'[c] = reqs[c]
           /\ reqs[c].pc = "waiting" /\ reqs'[c].pc # "waiting" =>
                  /\ reqs[c].seq \in DOMAIN pendingRequests
                  /\ reqs[c].seq \notin DOMAIN pendingRequests'
                  /\ reqs'[c].by \in {"response", "timer", "stop"}
                  /\ pendingLog'[reqs[c].seq].removals = <<reqs'[c].by>>
                  /\ pendingLog'[reqs[c].seq].settles = <<reqs'[c].by>>
    /\ \A s \in DOMAIN pendingRequests :
           IF s \in DOMAIN pendingRequests'
           THEN pendingRequests'[s] = pendingRequests[s]
           ELSE LET pr == pendingRequests[s]
                IN  reqs[pr.call].pc = "waiting" /\ reqs[pr.call].seq = s =>
                        reqs'[pr.call].pc # "waiting"

C5_FirstRemoverWins == [][C5_Step]_vars

\* stop() cancelled call 1 and the response to it came afterwards, while the
\* response to call 2 came before stop()
C5_Witness ==
    /\ reqs[1].pc = "rejected"
    /\ reqs[1].by = "stop"
    /\ reqs[1].value = ShuttingDownText
    /\ pendingLog[reqs[1].seq].late
    /\ reqs[2].pc = "resolved"
    /\ reqs[2].by = "response"
    /\ stops[1].pc = "done"

(***************************************************************************)
(* C6: a call that is waiting for a response has its own timer armed, with *)
(* a delay of 30000 ms when the command is "open" and of 15000 ms          *)
(* otherwise, armed when the request was written; the call that a timer    *)
(* rejects is rejected with the timed-out error naming its command and     *)
(* that budget, and not before the budget has elapsed since the request    *)
(* was written.                                                            *)
(***************************************************************************)
C6_Budget(command) == IF command = CmdOpen THEN 30000 ELSE 15000

C6_TimeoutAfterBudget ==
    \A c \in CallIds :
        /\ reqs[c].pc = "waiting" =>
               /\ reqs[c].seq \in DOMAIN pendingRequests
               /\ \E t \in timers :
                      /\ t.seq = reqs[c].seq
                      /\ t.call = c
                      /\ t.attempt = reqs[c].attempt
                      /\ t.armed = reqs[c].sentAt
                      /\ t.delay = C6_Budget(reqs[c].command)
        /\ reqs[c].pc = "rejected" /\ reqs[c].by = "timer" =>
               /\ reqs[c].value =
                      TimedOutHead \o reqs[c].command \o TimedOutMid
                      \o ToDigits(C6_Budget(reqs[c].command)) \o TimedOutTail
               /\ reqs[c].at - reqs[c].sentAt >= C6_Budget(reqs[c].command)
               /\ reqs[c].seq \notin DOMAIN pendingRequests

\* an "open" request, sent as a retry, timed out 30000 ms after it was written
C6_Witness ==
    /\ reqs[1].command = CmdOpen
    /\ reqs[1].pc = "rejected"
    /\ reqs[1].by = "timer"
    /\ reqs[1].attempt = 1
    /\ reqs[1].sentAt > 0
    /\ reqs[1].at = reqs[1].sentAt + 30000

(***************************************************************************)
(* C7: a call is retried only after a failure carrying "Debug Failure",    *)
(* at most 3 times (4 request frames); the waits before the retries are    *)
(* 1000, 2000 and 4000 ms, each min(1000 * 2^attempt, 5000), and no retry  *)
(* is sent before its wait has elapsed; a call rejected for the signature  *)
(* has made all 4 attempts and is rejected with the Debug Failure error.   *)
(***************************************************************************)
C7_Schedule == <<1000, 2000, 4000>>

C7_RetryWithBackoff ==
    \A c \in CallIds :
        /\ reqs[c].attempt <= 3
        /\ reqs[c].frames <= 4
        /\ reqs[c].frames <= reqs[c].attempt + 1
        /\ reqs[c].delays = SubSeq(C7_Schedule, 1, reqs[c].attempt)
        /\ Len(reqs[c].waits) = reqs[c].attempt
        /\ \A i \in 1..Len(reqs[c].waits) : reqs[c].waits[i] >= C7_Schedule[i]
        /\ \A i \in 1..Len(reqs[c].delays) :
               /\ reqs[c].delays[i] <= 5000
               /\ i > 1 => reqs[c].delays[i] > reqs[c].delays[i - 1]
        /\ reqs[c].pc = "backoff" =>
               /\ Includes(reqs[c].error, DebugFailure)
               /\ reqs[c].delay = C7_Schedule[reqs[c].attempt + 1]
        /\ reqs[c].pc = "rejected" /\ Includes(reqs[c].error, DebugFailure) =>
               /\ reqs[c].attempt = 3
               /\ reqs[c].by = "response"
               /\ reqs[c].value = WrappedDebugFailure(reqs[c].seq)

\* four frames were written and each was answered with the signature
C7_Witness ==
    /\ reqs[1].pc = "rejected"
    /\ reqs[1].frames = 4
    /\ reqs[1].delays = <<1000, 2000, 4000>>
    /\ reqs[1].by = "response"
    /\ Includes(reqs[1].value, DebugFailure)
    /\ now >= 7000

(***************************************************************************)
(* C8: a failure without the signature (an ordinary success:false          *)
(* response, a timeout, a stop() cancellation) ends the call at once: no   *)
(* backoff follows it, no frame is written after it, the caller gets the   *)
(* failure as it was raised, and the call never changes again; a call      *)
(* whose first attempt fails this way has written exactly one frame.       *)
(***************************************************************************)
C8_State ==
    \A c \in CallIds :
        /\ reqs[c].error # <<>> /\ ~Includes(reqs[c].error, DebugFailure) =>
               /\ reqs[c].pc = "rejected"
               /\ reqs[c].value = reqs[c].error
        /\ reqs[c].pc = "rejected" /\ reqs[c].by \in {"response", "timer", "stop"}
               /\ ~Includes(reqs[c].error, DebugFailure) =>
               /\ reqs[c].frames = reqs[c].attempt + 1
               /\ Len(reqs[c].delays) = reqs[c].attempt
               /\ reqs[c].attempt = 0 => reqs[c].frames = 1 /\ reqs[c].delays = <<>>
               /\ reqs[c].by = "response" =>
                      reqs[c].value = NotFoundMessage(reqs[c].seq)
               /\ reqs[c].by = "stop" => reqs[c].value = ShuttingDownText
               /\ reqs[c].by = "timer" =>
                      reqs[c].value = TimeoutError(reqs[c].command,
                                                   TimeoutOf(reqs[c].command))

C8_Step ==
    /\ C8_State'
    /\ \A c \in CallIds : reqs[c].pc = "rejected" => reqs'[c] = reqs[c]

C8_NoRetryWithoutSignature == [][C8_Step]_vars

\* the first attempt got an ordinary failure response: one frame, no backoff
C8_Witness ==
    /\ reqs[1].pc = "rejected"
    /\ reqs[1].by = "response"
    /\ reqs[1].attempt = 0
    /\ reqs[1].frames = 1
    /\ reqs[1].delays = <<>>
    /\ reqs[1].value = NotFoundMessage(1)

(***************************************************************************)
(* C9: of two openFile(p) calls made one after the other, the second after *)
(* the first has completed, on the same process handle and with p not open *)
(* before, the first writes the open notification and the second writes    *)
(* nothing; closeFile(p) writes a close notification if p is in the Open   *)
(* File Set when it is called, and nothing otherwise.                      *)
(***************************************************************************)
C9_OneOpenOneClose ==
    /\ \A f \in FileCalls, g \in FileCalls :
           /\ g = f + 1
           /\ files[f].op = "open" /\ files[g].op = "open"
           /\ files[f].path = files[g].path
           /\ files[f].pc = "done" /\ files[g].pc = "done"
           /\ f \in files[g].seen
           /\ files[f].proc = files[g].proc
           /\ ~files[f].had
           => files[f].wrote /\ ~files[g].wrote
    /\ \A f \in FileCalls :
           files[f].op = "close" => (files[f].wrote <=> files[f].had)

(***************************************************************************)
(* C10: however openFile and closeFile calls on one path interleave, no    *)
(* process is sent an open notification for a path it already has open,    *)
(* nor a close notification for a path it does not have open.              *)
(***************************************************************************)
C10_NoDuplicateOpenNoStrayClose ==
    \A p \in Pids : ~server[p].dupOpen /\ ~server[p].strayClose

(***************************************************************************)
(* C11: between operations (no openFile or closeFile call is suspended at  *)
(* its await) the Open File Set is the set of paths the process the client *)
(* holds has been told to open and not yet told to close, also after a     *)
(* stop(), after an unexpected exit and after the start() that follows.    *)
(***************************************************************************)
C11_OpenFileSetMirrorsProcess ==
    (\A f \in FileCalls : files[f].pc # "notified") /\ process # 0 =>
        openFiles = server[process].open

(***************************************************************************)
(* Lifecycle states of the client as the specification names them.         *)
(***************************************************************************)
NotStarted == \A p \in Pids : procs[p].state = "none"

Stopping == \E k \in StopCalls : stops[k].pc \in {"waiting", "resuming"}

Running ==
    /\ process # 0
    /\ StartOutcome(process) = "resolved"
    /\ ~Stopping

\* C12: start() spawns a process only in NotStarted: once a process has been
\* spawned, whether it is starting, running, being stopped, stopped or
\* crashed, no later start() spawns another one.
C12_StartOnlyFromNotStarted ==
    [][(\E p \in Pids : procs[p].state = "none" /\ procs'[p].state # "none")
           => NotStarted]_vars

\* C13: a request() made while the client is not Running (before start(),
\* before start() resolved, during stop(), after a stop or a crash) is
\* rejected with 'TSServer not started', registers no pending entry and
\* writes nothing to the process.
C13_RequestOutsideRunningFails ==
    [][\A c \in UserCalls :
          reqs[c].pc = "idle" /\ reqs'[c].pc # "idle" /\ ~Running =>
              /\ reqs'[c].pc = "rejected"
              /\ reqs'[c].error = NotStartedText
              /\ reqs'[c].frames = 0
              /\ pendingRequests' = pendingRequests
              /\ server' = server]_vars

\* C14: when the process exits while requests are pending and no stop() is
\* in progress, the exit empties the pending map, rejects every waiting
\* caller and emits 'exit'.
C14_ExitFailsPending ==
    [][\A p \in Pids :
          /\ procs[p].state = "running" /\ procs'[p].state = "exited"
          /\ ~Stopping
          /\ DOMAIN pendingRequests # {}
          => /\ DOMAIN pendingRequests' = {}
             /\ \A c \in CallIds : reqs[c].pc = "waiting" => reqs'[c].pc = "rejected"
             /\ Len(emitted') = Len(emitted) + 1
             /\ emitted'[Len(emitted')].channel = "exit"]_vars

\* the JSON text a frame carries: everything from its first brace on
Payload(f) ==
    LET i == CHOOSE j \in 1..Len(f) : f[j] = "{" /\ \A h \in 1..(j - 1) : f[h] # "{"
    IN  SubSeq(f, i, Len(f))

\* what a request looks like once the response in frame f has settled it
SettledBy(c, f) ==
    LET message == JsonParse(Payload(f))
    IN  IF message.type = "response" /\ message.request_seq = reqs[c].seq
        THEN reqs[c].pc # "waiting"
        ELSE reqs[c].pc = "waiting"

(***************************************************************************)
(* C15: a well-framed slice that is not valid JSON settles no request and  *)
(* publishes nothing, and the well-framed message after it (or before it)  *)
(* is still extracted and delivered, the buffer ending empty.              *)
(***************************************************************************)
C15_InvalidSliceSkipped ==
    \A f \in WireFrames \ {BadFrame} :
        /\ fed \o wire = BadFrame \o f =>
               /\ wire # <<>> =>
                      /\ got = <<>> /\ emitted = <<>>
                      /\ \A c \in 1..2 : reqs[c].pc = "waiting"
                      /\ DOMAIN pendingRequests = {reqs[1].seq, reqs[2].seq}
               /\ wire = <<>> =>
                      /\ got = <<JsonParse(Payload(f))>>
                      /\ buffer = <<>>
                      /\ \A c \in 1..2 : SettledBy(c, f)
        /\ fed \o wire = f \o BadFrame /\ wire = <<>> =>
               /\ got = <<JsonParse(Payload(f))>>
               /\ buffer = <<>>
               /\ \A c \in 1..2 : SettledBy(c, f)

\* the invalid slice and the response after it have arrived: request 1 is
\* resolved, request 2 still waits
C15_Witness ==
    /\ fed = BadFrame \o Frame(Reply(1, "success"))
    /\ wire = <<>>
    /\ reqs[1].pc = "resolved"
    /\ reqs[1].value = ResultBody(reqs[1].seq)
    /\ reqs[2].pc = "waiting"

\* the header of the scenario frame announcing n characters
ScenarioHeaderLength(n) == Len(ScenarioFrame(n)) - Len(ScenarioJson)

\* C16 as stated: once the frame announced as 42 characters long has
\* arrived, whatever the cuts, request 1 is resolved with "x".
C16_ScenarioAsStated ==
    fed = ScenarioFrame(42) /\ wire = <<>> =>
        reqs[1].pc = "resolved" /\ reqs[1].value = BodyX

\* C16, amended: once the frame announced with the length of its JSON text
\* (69 characters) has arrived, whatever the cuts, request 1 is resolved
\* with "x", the pending map and the buffer are empty; before its last
\* character has arrived request 1 is pending.
C16_ScenarioTrueLength ==
    LET frame == ScenarioFrame(Len(ScenarioJson))
    IN  /\ Len(ScenarioJson) = 69
        /\ fed \o wire = frame =>
               IF wire = <<>>
               THEN /\ reqs[1].pc = "resolved" /\ reqs[1].value = BodyX
                    /\ DOMAIN pendingRequests = {}
                    /\ buffer = <<>>
               ELSE /\ reqs[1].pc = "waiting"
                    /\ DOMAIN pendingRequests = {InitialSequence}
                    /\ buffer = fed

\* the frame arrived whole in three chunks, the first ending inside the
\* header and the second inside the JSON text
C16_Witness ==
    LET n == Len(ScenarioJson)
    IN  /\ fed = ScenarioFrame(n) /\ wire = <<>>
        /\ Len(cuts) = 3
        /\ cuts[1] < ScenarioHeaderLength(n)
        /\ cuts[1] + cuts[2] > ScenarioHeaderLength(n)
        /\ reqs[1].pc = "resolved" /\ reqs[1].value = BodyX

\* the message JSON.parse yields for the response Reply(rs, kind)
ResponseMessage(rs, kind) ==
    [type |-> "response", request_seq |-> rs, success |-> kind = "success",
     message |-> IF kind = "success" THEN <<>>
                 ELSE IF kind = "failure" THEN NotFoundMessage(rs)
                 ELSE DebugFailureMessage(rs),
     body |-> IF kind = "success" THEN ResultBody(rs) ELSE <<>>,
     event |-> <<>>]

(***************************************************************************)
(* C17: in every state the client reaches, a response naming a sequence    *)
(* number that is not in the pending map (already answered, timed out,     *)
(* cancelled, or never registered) leaves the pending map, every caller,   *)
(* the timers and the sequence counter as they were and publishes nothing; *)
(* and a caller stop() rejected stays so after the late response to it.    *)
(***************************************************************************)
C17_UnknownResponseDiscarded ==
    /\ \A rs \in (1..(MaxSeq + 1)) \ DOMAIN pendingRequests, kind \in ReplyKinds :
           LET st == HandleMessage(Client, ResponseMessage(rs, kind))
           IN  /\ st.pendingRequests = pendingRequests
               /\ st.reqs = reqs
               /\ st.timers = timers
               /\ st.sequence = sequence
               /\ st.emitted = emitted
    /\ \A c \in CallIds :
           /\ reqs[c].seq \in DOMAIN pendingLog
           /\ pendingLog[reqs[c].seq].late
           => /\ reqs[c].pc = "rejected"
              /\ reqs[c].by = "stop"
              /\ reqs[c].value = ShuttingDownText

\* the response to a request stop() had cancelled arrived while another
\* request was pending, which still is
C17_Witness ==
    \E c, d \in UserCalls :
        /\ reqs[c].seq \in DOMAIN pendingLog
        /\ pendingLog[reqs[c].seq].late
        /\ reqs[c].pc = "rejected"
        /\ reqs[d].pc = "waiting"
        /\ reqs[d].seq \in DOMAIN pendingRequests

\* the events the process sends, and what this.emit('event', ...) passes on
EventKinds == {<<EventName, BodyX>>, <<OtherEventName, BodyY>>}

EventFrame(e) == Frame(EventJson(e[1], e[2]))

Published(e) == [channel |-> "event", event |-> e[1], body |-> e[2]]

RECURSIVE EventsOf(_)
EventsOf(messages) ==
    IF messages = <<>> THEN <<>>
    ELSE (IF Head(messages).type = "event"
          THEN <<[channel |-> "event", event |-> Head(messages).event,
                  body |-> Head(messages).body]>>
          ELSE <<>>) \o EventsOf(Tail(messages))

(***************************************************************************)
(* C18: the 'event' emissions are the event messages received so far, each *)
(* with its name and body as sent, in the order of arrival; an event       *)
(* settles no request and leaves the pending map alone: a request is       *)
(* settled only once a response naming it has arrived.                     *)
(***************************************************************************)
C18_EventsPublishedInOrder ==
    /\ emitted = EventsOf(got)
    /\ \A e1, e2 \in EventKinds :
           /\ fed \o wire = EventFrame(e1) \o EventFrame(e2) =>
                  /\ \A c \in 1..2 : reqs[c].pc = "waiting"
                  /\ DOMAIN pendingRequests = {reqs[1].seq, reqs[2].seq}
                  /\ wire = <<>> => emitted = <<Published(e1), Published(e2)>>
                  /\ Len(fed) < Len(EventFrame(e1)) => emitted = <<>>
    /\ \A c \in 1..2 :
           reqs[c].pc # "waiting" =>
               \E i \in 1..Len(got) :
                   got[i].type = "response" /\ got[i].request_seq = reqs[c].seq

\* two different events have arrived and were published in that order while
\* both requests stay pending
C18_Witness ==
    /\ emitted = <<Published(<<EventName, BodyX>>),
                   Published(<<OtherEventName, BodyY>>)>>
    /\ wire = <<>>
    /\ \A c \in 1..2 : reqs[c].pc = "waiting"
    /\ DOMAIN pendingRequests = {reqs[1].seq, reqs[2].seq}

\* C19: the sequence counter never decreases while the client keeps one
\* process handle, and a start() that creates a new process handle leaves it
\* at its initial value, so that the first request after that start
\* carries seq 1.
C19_CounterRestartsWithProcess ==
    [][IF process = 0 /\ process' # 0
       THEN sequence' = InitialSequence
       ELSE sequence' >= sequence]_vars

(***************************************************************************)
(* C20: outside fast-test mode start() sends no warm-up before its timer   *)
(* fires, has resolved only if its configure request was sent and resolved *)
(* by a response, and has failed whenever that request has failed; in      *)
(* fast-test mode start() never issues a request: no sequence number is    *)
(* allocated and nothing is pending.                                       *)
(***************************************************************************)
C20_WarmUpBeforeResolve ==
    \A p \in Pids :
        LET warmUp == reqs[ConfigCall(p)]
        IN  IF fastTest
            THEN /\ warmUp = NoRequest
                 /\ sequence = InitialSequence
                 /\ pendingLog = <<>>
                 /\ StartOutcome(p) \in {"none", "timer", "resolved"}
            ELSE /\ starts[p].pc \in {"none", "timer"} => warmUp = NoRequest
                 /\ StartOutcome(p) = "resolved" =>
                        /\ warmUp.pc = "resolved"
                        /\ warmUp.command = CmdConfigure
                        /\ warmUp.by = "response"
                        /\ warmUp.frames >= 1
                 /\ warmUp.pc = "rejected" => StartOutcome(p) = "rejected"
                 /\ StartOutcome(p) = "rejected" => warmUp.pc = "rejected"

\* a start() that resolved after its warm-up was answered, and a start()
\* that failed because its warm-up did
C20_Witness ==
    /\ ~fastTest
    /\ StartOutcome(1) = "rejected"
    /\ reqs[ConfigCall(1)].pc = "rejected"
    /\ StartOutcome(2) = "resolved"
    /\ reqs[ConfigCall(2)].by = "response"

(***************************************************************************)
(* C21: a stop() that found a process alive has, when it resolves, written *)
(* the exit command to that process and seen it exit or force-terminated   *)
(* it; it force-terminates only a process that has not exited; and it      *)
(* rejected the pending callers before it wrote the exit command.          *)
(***************************************************************************)
C21_GracefulThenForced ==
    \A k \in StopCalls :
        /\ stops[k].pc = "done" =>
               \A p \in stops[k].live :
                   /\ server[p].exitCmd
                   /\ procs[p].state = "exited" \/ procs[p].killed
        /\ stops[k].pc # "idle" =>
               \A c \in stops[k].cancelled : reqs[c].pc # "waiting" \/ reqs[c].by # "none"

\* the client holds no process and every process it spawned has exited or
\* has been force-terminated
Stopped ==
    /\ process = 0
    /\ ~Stopping
    /\ \A p \in Pids : procs[p].state = "running" => procs[p].killed

(***************************************************************************)
(* C22: a stop() called on a client that is stopped or was never started   *)
(* changes nothing: the pending map, the callers, the open file set, the   *)
(* sequence counter, the process handle, the processes and what they were  *)
(* told stay as they were.                                                 *)
(***************************************************************************)
C22_StopWhenStoppedIsNoOp ==
    [][\A k \in StopCalls :
          stops[k].pc = "idle" /\ stops'[k].pc # "idle" /\ Stopped =>
              /\ stops'[k].pc = "done"
              /\ pendingRequests' = pendingRequests
              /\ reqs' = reqs
              /\ openFiles' = openFiles
              /\ sequence' = sequence
              /\ process' = process
              /\ procs' = procs
              /\ server' = server]_vars

\* the processes that were spawned and have neither exited nor been
\* force-terminated
LiveProcesses == {p \in Pids : procs[p].state = "running" /\ ~procs[p].killed}

\* C23: whatever the sequence of start(), stop(), exits and exit events,
\* at most one spawned process is alive at any moment.
C23_AtMostOneLiveProcess == Cardinality(LiveProcesses) <= 1

\* tool operation t has returned or thrown
Finished(t) == tools[t].pc \in {"returned", "thrown"}

\* the last request tool operation t sent
LastRequest(t) == reqs[tools[t].sent[Len(tools[t].sent)]]

(***************************************************************************)
(* C24: the calls a tool operation makes on the client are openFile, then  *)
(* its requests, then closeFile, on one and the same file: no request is   *)
(* sent before openFile has returned, closeFile is called only once the    *)
(* last request sent has settled, and a tool that sent a request has       *)
(* called closeFile before it returns or throws, whether the request       *)
(* succeeded or failed.                                                    *)
(***************************************************************************)
C24_OpenRequestsClose ==
    \A t \in ToolCalls :
        LET calls == tools[t].calls
            n == Len(tools[t].sent)
        IN  /\ tools[t].pc # "idle" =>
                   /\ calls[1] = "openFile"
                   /\ files[tools[t].slots[1]].op = "open"
                   /\ files[tools[t].slots[1]].path = tools[t].path
            /\ n <= Len(ToolCommands(tools[t].kind))
            /\ \A i \in 1..n :
                   /\ calls[i + 1] = "request"
                   /\ reqs[tools[t].sent[i]].command = ToolCommands(tools[t].kind)[i]
                   /\ i < n => reqs[tools[t].sent[i]].pc = "resolved"
            /\ n > 0 => files[tools[t].slots[1]].pc = "done"
            /\ Len(calls) > n + 1 =>
                   /\ calls = [i \in 1..(n + 2) |->
                                  IF i = 1 THEN "openFile"
                                  ELSE IF i = n + 2 THEN "closeFile" ELSE "request"]
                   /\ n > 0
                   /\ Settled(LastRequest(t))
                   /\ files[tools[t].slots[2]].op = "close"
                   /\ files[tools[t].slots[2]].path = tools[t].path
            /\ Finished(t) /\ n > 0 =>
                   /\ Len(calls) = n + 2
                   /\ files[tools[t].slots[2]].pc \in {"done", "failed"}

\* a tool whose request failed has called closeFile and has thrown the
\* error of the request
C24_Witness ==
    \E t \in ToolCalls :
        /\ tools[t].pc = "thrown"
        /\ tools[t].kind = "rename"
        /\ tools[t].calls = <<"openFile", "request", "closeFile">>
        /\ LastRequest(t).pc = "rejected"
        /\ tools[t].ret.value = LastRequest(t).value
        /\ files[tools[t].slots[2]].wrote

(***************************************************************************)
(* C25: a tool operation whose request failed ends as follows: getHover    *)
(* returns null, organizeImports returns {success: false}, and the four    *)
(* other tools throw the error the request was rejected with.              *)
(***************************************************************************)
C25_FailurePolicy ==
    \A t \in ToolCalls :
        Finished(t) /\ tools[t].sent # <<>> /\ LastRequest(t).pc = "rejected" =>
            IF tools[t].kind = "hover"
            THEN tools[t].pc = "returned" /\ tools[t].ret.kind = "null"
            ELSE IF tools[t].kind = "organizeImports"
            THEN tools[t].pc = "returned" /\ tools[t].ret.kind = "failure"
            ELSE tools[t].pc = "thrown" /\ tools[t].ret.value = LastRequest(t).value

\* The order of the levels as documented: error > warn > info > debug.
Severity(level) ==
    CASE level = "error" -> 4
      [] level = "warn" -> 3
      [] level = "info" -> 2
      [] level = "debug" -> 1

LoggedLevels(lines) == [i \in DOMAIN lines |-> lines[i].level]

\* C26: a log call at level L is emitted (on the console, and in the log file
\* when logToFile is set) if and only if logging is enabled and L is at least
\* as severe as the configured level; with logging disabled nothing is emitted.
C26_LevelGate ==
    [][Len(logger'.calls) > Len(logger.calls) =>
        LET level == logger'.calls[Len(logger'.calls)]
            due == /\ logger.config.enabled
                   /\ Severity(level) >= Severity(logger.config.level)
        IN  /\ due => /\ LoggedLevels(logger'.console)
                           = Append(LoggedLevels(logger.console), level)
                      /\ logger.config.logToFile =>
                            /\ existsSync(logger'.dir, logFile)
                            /\ LET written == logger'.dir[logFile]
                               IN  /\ written # <<>>
                                   /\ written[Len(written)].level = level
        /\ ~due => /\ logger'.console = logger.console
                   /\ logger'.dir = logger.dir]_vars

C26_Witness ==
    /\ logger.config.enabled
    /\ logger.config.level = "warn"
    /\ logger.calls = <<"debug", "info", "warn", "error">>
    /\ LoggedLevels(logger.console) = <<"warn", "error">>
    /\ existsSync(logger.dir, logFile)
    /\ LoggedLevels(logger.dir[logFile]) = <<"warn", "error">>

\* A log call that finds the log file larger than maxFileSize.
Rotating ==
    /\ Len(logger'.calls) > Len(logger.calls)
    /\ Len(logger'.console) > Len(logger.console)
    /\ logger.config.logToFile
    /\ existsSync(logger.dir, logFile)
    /\ Len(logger.dir[logFile]) > logger.config.maxFileSize

\* C27: when the log file exceeds maxFileSize and is rotated, the current log
\* becomes tsserver-mcp.log.0, the previous tsserver-mcp.log.0 becomes
\* tsserver-mcp.log.1, and so on for each older file, and files beyond
\* maxFiles are deleted.
C27_RotationShiftsFromZero ==
    [][Rotating =>
        /\ existsSync(logger'.dir, RotatedLog(0))
        /\ logger'.dir[RotatedLog(0)] = logger.dir[logFile]
        /\ \A i \in 0..(logger.config.maxFiles - 2) :
              existsSync(logger.dir, RotatedLog(i)) =>
                  /\ existsSync(logger'.dir, RotatedLog(i + 1))
                  /\ logger'.dir[RotatedLog(i + 1)] = logger.dir[RotatedLog(i)]
        /\ \A i \in DOMAIN RotatedNames :
              existsSync(logger'.dir, RotatedLog(i - 1)) => i - 1 < logger.config.maxFiles
      ]_vars

\* request() call c sends an attempt in this step
AttemptSent(c) ==
    \/ reqs'[c].attempt # reqs[c].attempt
    \/ reqs'[c].seq # reqs[c].seq

\* the attempt call c is waiting for ends in this step, by a response or a timer
AttemptEnded(c) ==
    /\ reqs[c].pc = "waiting"
    /\ reqs'[c].pc # "waiting"
    /\ reqs'[c].by \in {"response", "timer"}

C28_Step(c) ==
    /\ AttemptSent(c) =>
          /\ reqs'[c].seq = sequence
          /\ sequence' = sequence + 1
          /\ \A s \in DOMAIN pendingLog : s < reqs'[c].seq
          /\ \A d \in CallIds : reqs[d].seq < reqs'[c].seq
    /\ AttemptEnded(c) =>
          /\ pendingLog'[reqs[c].seq].removals
                 = Append(pendingLog[reqs[c].seq].removals, reqs'[c].by)
          /\ reqs'[c].by = "response" => reqs'[c].reply = reqs[c].seq
          /\ reqs'[c].by = "timer" =>
                 \E t \in timers \ timers' : t.seq = reqs[c].seq /\ t.call = c
    /\ sequence' >= sequence

\* C28: each attempt of a request() call is sent with a newly allocated
\* sequence number, greater than every number allocated before it, and the
\* attempt a call is waiting for is ended only by the response or the timer
\* that carries that attempt's own number, never by a late response or timer
\* of an earlier attempt.
C28_FreshSequencePerAttempt == [][\A c \in CallIds : C28_Step(c)]_vars

\* the second attempt of a call is still waiting although the timer of its
\* first attempt, which a response had ended, has fired in the meantime
C28_Witness ==
    \E c \in CallIds :
        /\ reqs[c].pc = "waiting"
        /\ reqs[c].attempt = 1
        /\ reqs[c].seq > 1
        /\ \E s \in DOMAIN pendingLog :
              /\ s < reqs[c].seq
              /\ pendingLog[s].removals = <<"response">>
              /\ \A t \in timers : t.seq # s
        /\ \E t \in timers : t.seq = reqs[c].seq /\ t.call = c

\* a text that is nothing but complete frames, and the contents they carry
RECURSIVE WholeFrames(_)
WholeFrames(text) ==
    IF text = <<>> THEN [whole |-> TRUE, contents |-> <<>>]
    ELSE LET header == HeaderMatch(text)
             size == header.headerLength + header.contentLength
         IN  IF ~header.matched \/ Len(text) < size
             THEN [whole |-> FALSE, contents |-> <<>>]
             ELSE LET rest == WholeFrames(SubSeq(text, size + 1, Len(text)))
                  IN  [whole |-> rest.whole,
                       contents |-> <<SubSeq(text, header.headerLength + 1, size)>>
                                        \o rest.contents]

\* what has left the front of the buffer so far
Consumed == SubSeq(fed, 1, Len(fed) - Len(buffer))

\* C29: after every data arrival the buffer is the text received so far
\* without a front part that consists of exactly the header and the content
\* of each message extracted; nothing else has been discarded.
C29_BufferIsUnconsumedRest ==
    /\ Len(buffer) <= Len(fed)
    /\ fed = Consumed \o buffer
    /\ WholeFrames(Consumed).whole
    /\ Parsed(WholeFrames(Consumed).contents) = got

\* one frame has been extracted and the buffer holds the header and a part
\* of the content of the next
C29_Witness ==
    /\ Consumed # <<>>
    /\ HeaderMatch(buffer).matched
    /\ Len(buffer) > HeaderMatch(buffer).headerLength
    /\ wire # <<>>

\* the contents of a text made of frames in the framing of the unit tests
RECURSIVE TestContents(_)
TestContents(text) ==
    LET header == HeaderMatch(text)
        size == header.headerLength + header.contentLength
    IN  IF ~header.matched \/ Len(text) < size + 1 THEN <<>>
        ELSE <<SubSeq(text, header.headerLength + 1, size)>>
                 \o TestContents(SubSeq(text, size + 2, Len(text)))

\* C30: once all bytes of a well-framed message have been fed it has been
\* extracted and delivered, also when the message before it was followed by
\* a newline that its Content-Length does not count.
C30_DeliveredAfterTrailingNewline ==
    wire = <<>> => got = Parsed(TestContents(fed))

\* the 'exit' event of a process that stop() has force-terminated and
\* released is delivered in this step
StaleExit(p) ==
    /\ procs[p].state = "running"
    /\ procs[p].killed
    /\ procs'[p].state = "exited"
    /\ process # p

\* C31: the exit event of a process that stop() force-terminated and released
\* does not affect the process a later start() created: the client keeps the
\* handle of its new process whenever the old event arrives.
C31_StaleExitKeepsNewHandle ==
    [][\A p \in Pids : StaleExit(p) /\ process # 0 => process' = process]_vars

\* tool operation t has sent a request that has not settled yet
InFlight(t) ==
    /\ tools[t].pc = "requesting"
    /\ LastRequest(t).pc \in {"waiting", "backoff"}

\* C32: while a tool operation has a request in flight for file p, p is in the
\* open file set and the process has not been told to close it, whatever the
\* interleaving of the tool operations that work on the same p.
C32_FileOpenWhileInFlight ==
    \A t \in ToolCalls :
        InFlight(t) =>
            /\ tools[t].path \in openFiles
            /\ process # 0 => tools[t].path \in server[process].open

\* C33: when a stop() resolves, the pending map is empty, the open file set
\* is empty and the process handle is released, also when request(),
\* openFile() or closeFile() were called while it waited for the exit.
C33_StopLeavesNothing ==
    [][\A k \in StopCalls :
          stops[k].pc # "done" /\ stops'[k].pc = "done" =>
              /\ pendingRequests' = <<>>
              /\ openFiles' = {}
              /\ process' = 0]_vars

\* C34: every request() call that was made settles in the end, resolved or
\* rejected, provided armed timers fire: whatever responses, unknown or
\* malformed messages, process exits, stop() calls and retries occur.
C34_EveryCallSettles ==
    \A c \in 1..SoloCalls : (reqs[c].pc # "idle") ~> Settled(reqs[c])

\* the process exited with the call pending, and the call's timer settled it
C34_Witness ==
    /\ reqs[1].pc = "rejected"
    /\ reqs[1].by = "timer"
    /\ procs[1].state = "exited"

\* the backoff of call c ends in this step while the client holds no process
RetryWithoutProcess(c) ==
    /\ reqs[c].pc = "backoff"
    /\ reqs'[c].pc # "backoff"
    /\ process = 0

\* C35: when the process handle was released, by stop() or by an exit, while
\* a request waited in retry backoff, the retry attempt fails with 'TSServer
\* not started' and leaves no entry in the pending map.
C35_RetryAfterReleaseFailsClean ==
    [][\A c \in CallIds :
          RetryWithoutProcess(c) =>
              /\ reqs'[c].pc = "rejected"
              /\ reqs'[c].value = NotStartedText
              /\ pendingRequests' = pendingRequests]_vars

\* the timer of an attempt that a response or stop() has settled fires
LateTimer(t) ==
    /\ t \in timers
    /\ t \notin timers'
    /\ t.seq \notin DOMAIN pendingRequests

\* C36: a request timer that fires after its request was settled by a
\* response or by stop() has no effect: no caller is rejected, no entry of
\* another request is removed, the pending map stays as it was.
C36_LateTimerHasNoEffect ==
    [][(\E t \in timers : LateTimer(t)) =>
           /\ reqs' = reqs
           /\ pendingRequests' = pendingRequests
           /\ pendingLog' = pendingLog]_vars

\* the timer of an answered request has fired while the second attempt of
\* the same call was pending, and that attempt is pending still
C36_Witness ==
    \E c \in CallIds :
        /\ reqs[c].pc = "waiting"
        /\ reqs[c].attempt = 1
        /\ reqs[c].seq \in DOMAIN pendingRequests
        /\ \A t \in timers : t.call = c => t.attempt = 1
        /\ \E s \in DOMAIN pendingLog :
              pendingLog[s].removals = <<"response">> /\ s < reqs[c].seq

\* C37: a tool call whose execution throws, a call of an unknown tool
\* included, is answered with isError true and the text "Error: " followed
\* by the message, the exception going no further; a tool call without
\* arguments is rejected with an exception before any tool runs.
C37_HandlerCatchesToolErrors ==
    \A t \in ToolCalls :
        /\ tools[t].pc = "answered" =>
              /\ tools[t].response.kind = "result"
              /\ tools[t].ret.kind = "throw" =>
                     /\ tools[t].response.isError
                     /\ tools[t].response.text = ErrorPrefix \o tools[t].ret.value
              /\ tools[t].kind = "none" =>
                     tools[t].response
                         = [kind |-> "result", isError |-> TRUE,
                            text |-> ErrorPrefix \o UnknownToolPrefix \o UnknownToolName]
        /\ tools[t].pc = "thrown" /\ tools[t].kind = "none" =>
              /\ tools[t].ret.value = ArgumentsRequiredText
              /\ tools[t].calls = <<>>
              /\ tools[t].response = NoResponse

\* getDefinition threw 'TSServer not started' and the handler answered
C37_Witness ==
    \E t \in ToolCalls :
        /\ tools[t].pc = "answered"
        /\ tools[t].kind = "definition"
        /\ tools[t].ret = [kind |-> "throw", value |-> NotStartedText]
        /\ tools[t].response.isError
        /\ tools[t].response.text = ErrorPrefix \o NotStartedText

\* the stop() calls made on the client so far
StopsCalled == {k \in StopCalls : stops[k].pc # "idle"}

\* C38: the first shutdown trigger calls stop() once, and the process exits
\* with code 0 when that stop() has succeeded, or 1 when it failed; a trigger
\* that arrives while the shutdown is in progress exits at once with code 1
\* and calls stop() no second time.
C38_Step ==
    /\ main'.triggers > main.triggers =>
          IF main.triggers = 0
          THEN /\ StopsCalled = {}
               /\ Cardinality(StopsCalled') = 1
               /\ main'.exitCode = -1
          ELSE /\ stops' = stops
               /\ main'.exitCode = 1
    /\ main'.triggers = main.triggers /\ main'.exitCode # main.exitCode =>
          /\ main.triggers = 1
          /\ Cardinality(StopsCalled) = 1
          /\ \A k \in StopsCalled :
                main'.exitCode = IF stops[k].pc = "done" THEN 0 ELSE 1
    /\ main.exitCode # -1 => main' = main

C38_WitnessForced ==
    /\ main.exitCode = 1
    /\ main.triggers = 2
    /\ stops[1].pc = "waiting"
    /\ stops[2].pc = "idle"

\* C39: every key of the pending map is at least 1 and less than the
\* sequence counter, so that a response to the exit command, which stop()
\* writes with seq 0, matches no pending request and settles no caller.
C39_KeysWithinCounter ==
    [][/\ \A s \in DOMAIN pendingRequests' : 1 <= s /\ s < sequence'
       /\ fed' # fed => /\ reqs' = reqs
                        /\ pendingRequests' = pendingRequests]_vars

\* a request made while stop() was waiting is still pending after the
\* process has answered the exit command
C39_Witness ==
    /\ fed # <<>>
    /\ stops[1].pc = "waiting"
    /\ pendingRequests # <<>>
    /\ \E c \in 1..SoloCalls : reqs[c].pc = "waiting"
====
